---------------------------- MODULE Spec2Model ----------------------------
(***************************************************************************)
(* A model of the legal-case pipeline: the extraction scheduler, the       *)
(* repair pass and the combiner of qctext.py, the memo generator of        *)
(* chatbot_app.py and the vector-store loader of vector_creation.py.       *)
(*                                                                         *)
(* Text (segment text, identifiers, file names, case numbers) is a         *)
(* sequence of one-character strings, so that the regular expressions and  *)
(* the str.replace calls of the code are computed, not assumed.            *)
(***************************************************************************)
EXTENDS Integers, Sequences, FiniteSets, TLC

(***************************************************************************)
(* Bounds of the model.                                                    *)
(***************************************************************************)
\* main() is run at most MaxRuns times in a row on the same corpus
MaxRuns == 2
\* the corpus holds at most MaxSegs segments
MaxSegs == 2
\* the output directory holds at most MaxInitFiles record files before the first run
MaxInitFiles == 1
\* the directory a verification pass is started on holds at most MaxRepairFiles record files
MaxRepairFiles == 2

(***************************************************************************)
(* Text helpers.                                                           *)
(***************************************************************************)
Digits == {"0", "1", "2", "3", "4", "5", "6", "7", "8", "9"}

\* the Thai digits one, two, five and six (U+0E51, U+0E52, U+0E55, U+0E56),
\* each one character
ThaiDigits == {"TH1", "TH2", "TH5", "TH6"}

\* \d of a str pattern and str.isdigit on one character: any decimal digit
IsDigit(c) == c \in Digits \cup ThaiDigits

\* the class [0-9]
IsAsciiDigit(c) == c \in Digits

Whitespace == {" ", "\n"}

\* str.endswith
EndsWith(s, suf) ==
    /\ Len(s) >= Len(suf)
    /\ SubSeq(s, Len(s) - Len(suf) + 1, Len(s)) = suf

\* str.replace(old, new): every non-overlapping occurrence, left to right
RECURSIVE Replace(_, _, _)
Replace(s, old, new) ==
    IF Len(s) < Len(old) THEN s
    ELSE IF SubSeq(s, 1, Len(old)) = old
         THEN new \o Replace(SubSeq(s, Len(old) + 1, Len(s)), old, new)
         ELSE <<Head(s)>> \o Replace(Tail(s), old, new)

\* str.strip(): leading and trailing whitespace removed
RECURSIVE LStrip(_)
LStrip(s) ==
    IF s # <<>> /\ Head(s) \in Whitespace THEN LStrip(Tail(s)) ELSE s

RECURSIVE RStrip(_)
RStrip(s) ==
    IF s # <<>> /\ s[Len(s)] \in Whitespace
    THEN RStrip(SubSeq(s, 1, Len(s) - 1))
    ELSE s

Strip(s) == RStrip(LStrip(s))

DotJson == <<".", "j", "s", "o", "n">>

Slash == <<"/">>

Dash == <<"-">>

\* positions p of a "/" with a digit before it and four digits after it:
\* where the regular expression \d+/\d{4} can match
SlashPositions(s) ==
    { p \in 2..(Len(s) - 4) :
        /\ s[p] = "/"
        /\ IsDigit(s[p - 1])
        /\ \A k \in 1..4 : IsDigit(s[p + k]) }

\* start of the run of digits that ends at position q
RECURSIVE RunStart(_, _)
RunStart(s, q) ==
    IF q > 1 /\ IsDigit(s[q - 1]) THEN RunStart(s, q - 1) ELSE q

NoMatch == <<>>

\* re.compile(r'(\d+/\d{4})').search(s).group(1), or NoMatch: the leftmost
\* match, its \d+ the whole run of digits before the "/"
SearchCaseId(s) ==
    IF SlashPositions(s) = {} THEN NoMatch
    ELSE LET p == CHOOSE x \in SlashPositions(s) :
                      \A y \in SlashPositions(s) : x <= y
         IN  SubSeq(s, RunStart(s, p - 1), p + 4)

\* re.compile(r'.*?\d+/\d{4}').fullmatch(s): s ends with digit(s) "/" four
\* digits; "." matches no line break, so none may stand before them
FullMatchCaseNumber(s) ==
    /\ Len(s) >= 6
    /\ \A k \in 0..3 : IsDigit(s[Len(s) - k])
    /\ s[Len(s) - 4] = "/"
    /\ IsDigit(s[Len(s) - 5])
    /\ \A k \in 1..(Len(s) - 6) : s[k] # "\n"

\* a file name that keeps the "/" of the ID: the variant C13 is measured
\* against
OutputFilename_KeepSlash(case_id) == case_id \o DotJson

\* match.group(1).replace('/', '-') and f"{case_id_for_filename}.json"
OutputFilename(case_id) == Replace(case_id, Slash, Dash) \o DotJson

\* the reversal that forgets to drop the extension: the variant C6 is
\* measured against
IdOfFilename_KeepExt(filename) == Replace(filename, Dash, Slash)

\* filename.replace('.json', '').replace('-', '/')
IdOfFilename(filename) == Replace(Replace(filename, DotJson, <<>>), Dash, Slash)

combined_filename_leaf ==
    <<"_", "A", "L", "L", "_", "C", "A", "S", "E", "S", "_",
      "C", "O", "M", "B", "I", "N", "E", "D", ".", "j", "s", "o", "n">>


(***************************************************************************)
(* JSON values.  A value of the case_number key is a string, null, a       *)
(* number, or the key is absent; the other keys of a record are one token: *)
(* "full" (every field of the schema present), "opt_absent" (an optional   *)
(* text field left out), "bad" (a required field missing or of the wrong   *)
(* type), "empty" (no other key at all).                                   *)
(***************************************************************************)
Str(s) == [t |-> "str", v |-> s]

Null == [t |-> "null", v |-> <<>>]

Num == [t |-> "num", v |-> <<>>]

Absent == [t |-> "absent", v |-> <<>>]

Obj(cn, rest) == [case_number |-> cn, rest |-> rest]

\* the empty dict {}
EmptyObj == Obj(Absent, "empty")

\* bool(d) of a dict d
Truthy(obj) == obj # EmptyObj

\* d.get("case_number"): None when the key is absent
GetCaseNumber(obj) ==
    IF obj.case_number = Absent THEN Null ELSE obj.case_number

\* d.get("case_number", "")
GetCaseNumberOrEmpty(obj) ==
    IF obj.case_number = Absent THEN Str(<<>>) ELSE obj.case_number

\* isinstance(x, str) and pattern.fullmatch(x)
IsValidCaseNumber(x) == x.t = "str" /\ FullMatchCaseNumber(x.v)

\* LegalCase.model_validate of qctext.py: case_number a string, the required
\* fields well-formed, the Optional fields defaulting to None when left out
LegalCaseValid(obj) ==
    /\ obj.case_number.t = "str"
    /\ obj.rest \in {"full", "opt_absent"}

(***************************************************************************)
(* The LLM's HTTP response.  A JSON value is a record tagged by t; a dict  *)
(* carries its keys as a function f, a list its elements as items, a       *)
(* string what its text looks like to the parser (kind) and, when the text *)
(* holds one JSON object, that object (obj).                               *)
(***************************************************************************)
JNone == [t |-> "none"]

JNum == [t |-> "num"]

JDict(f) == [t |-> "dict", f |-> f]

JList(items) == [t |-> "list", items |-> items]

JText(kind, obj) == [t |-> "str", kind |-> kind, obj |-> obj]

NotJson == [t |-> "notjson"]

Ok(v) == [exc |-> "", val |-> v]

Exc(e) == [exc |-> e, val |-> JNone]

\* x.get(key, default)
Get(x, key, default) ==
    IF x.t # "dict" THEN Exc("AttributeError")
    ELSE IF key \in DOMAIN x.f THEN Ok(x.f[key])
    ELSE Ok(default)

\* x[0]
Index0(x) ==
    CASE x.t = "list" -> IF x.items = <<>> THEN Exc("IndexError")
                         ELSE Ok(x.items[1])
      [] x.t = "dict" -> Exc("KeyError")
      [] OTHER        -> Exc("TypeError")

\* result.get('choices', [{}])[0].get('message', {}).get('content')
ContentOf(result) ==
    LET a == Get(result, "choices", JList(<<JDict(<<>>)>>))
    IN  IF a.exc # "" THEN a
        ELSE LET b == Index0(a.val)
             IN  IF b.exc # "" THEN b
                 ELSE LET c == Get(b.val, "message", JDict(<<>>))
                      IN  IF c.exc # "" THEN c
                          ELSE Get(c.val, "content", JNone)

\* the exceptions get_completion turns into None, besides RequestException
CaughtShapeErrors == {"KeyError", "IndexError"}

Returned(v) == [tag |-> "return", val |-> v]

Raised == [tag |-> "raise", val |-> JNone]

\* a response: the transport outcome, the HTTP status and the body
Resp(net, status, body) == [net |-> net, status |-> status, body |-> body]

\* get_completion of both connectors: the POST and raise_for_status raise a
\* RequestException, json() a JSONDecodeError, all turned into None; of the
\* exceptions of the content lookup only KeyError and IndexError are
GetCompletion(resp) ==
    IF resp.net # "ok" THEN Returned(JNone)
    ELSE IF resp.status # "ok" THEN Returned(JNone)
    ELSE IF resp.body = NotJson THEN Returned(JNone)
    ELSE LET r == ContentOf(resp.body)
         IN  IF r.exc = "" THEN Returned(r.val)
             ELSE IF r.exc \in CaughtShapeErrors THEN Returned(JNone)
             ELSE Raised

\* bool(x) of a value get_completion returned
TruthyVal(v) ==
    CASE v.t = "none" -> FALSE
      [] v.t = "str"  -> v.kind # "empty"
      [] v.t = "list" -> v.items # <<>>
      [] v.t = "dict" -> v.f # <<>>
      [] OTHER        -> TRUE

NoData == [tag |-> "none", obj |-> EmptyObj]

DataRaised == [tag |-> "raise", obj |-> EmptyObj]

Data(obj) == [tag |-> "obj", obj |-> obj]

\* extract_data_for_single_case: None when get_completion gave nothing, when
\* the text holds no {...} block or the block does not decode; re.search on a
\* content that is no string raises TypeError
ExtractData(resp) ==
    LET r == GetCompletion(resp)
    IN  IF r.tag = "raise" THEN DataRaised
        ELSE IF ~TruthyVal(r.val) THEN NoData
        ELSE IF r.val.t # "str" THEN DataRaised
        ELSE IF r.val.kind = "object" THEN Data(r.val.obj)
        ELSE NoData

\* bodies of a 200 response
Body(content) ==
    JDict([choices |-> JList(<<JDict([message |-> JDict([content |-> content])])>>)])

ShapeBodies ==
    { NotJson,
      JList(<<>>),
      JDict(<<>>),
      JDict([choices |-> JNone]),
      JDict([choices |-> JList(<<>>)]),
      JDict([choices |-> JList(<<JNum>>)]),
      JDict([choices |-> JList(<<JDict([message |-> JNone])>>)]),
      JDict([choices |-> JList(<<JDict(<<>>)>>)]),
      Body(JNone),
      Body(JNum),
      Body(JText("empty", EmptyObj)),
      Body(JText("no_braces", EmptyObj)),
      Body(JText("bad_json", EmptyObj)) }

FailedResponses ==
    { Resp("error", "ok", NotJson), Resp("ok", "error", NotJson) }
    \cup { Resp("ok", "ok", b) : b \in ShapeBodies }

(***************************************************************************)
(* Files of the output directory.                                          *)
(***************************************************************************)
\* a file holding one JSON object; fmt is "indent4" for the layout
\* json.dump(..., ensure_ascii=False, indent=4) writes, "other" otherwise;
\* by names the last writer: "env" (there before the first run), "worker",
\* "repair"
ObjFile(obj, fmt, by) ==
    [kind |-> "object", obj |-> obj, fmt |-> fmt, by |-> by, items |-> <<>>]

\* a file whose bytes are no JSON ("garbage"), of size 0 ("empty"), JSON
\* that is no object ("nonobject"), or no UTF-8 ("badutf8")
RawFile(kind, by) ==
    [kind |-> kind, obj |-> EmptyObj, fmt |-> "other", by |-> by, items |-> <<>>]

\* the consolidated artifact: a JSON array
ArrayFile(items, by) ==
    [kind |-> "array", obj |-> EmptyObj, fmt |-> "indent4", by |-> by,
     items |-> items]

\* the directory d with file name holding content c
WriteFile(d, name, c) ==
    [n \in (DOMAIN d) \cup {name} |-> IF n = name THEN c ELSE d[n]]


(***************************************************************************)
(* Inputs of the extraction pipeline.                                      *)
(***************************************************************************)
\* "x1/2566": provisional ID 1/2566
TextA == <<"x", "1", "/", "2", "5", "6", "6">>

\* "2/25679 ": provisional ID 2/2567 (the first four digits after the "/")
TextB == <<"2", "/", "2", "5", "6", "7", "9", " ">>

\* "a/12": no provisional ID
TextNoId == <<"a", "/", "1", "2">>

\* "\n": what follows the last delimiter line of the corpus
TextBlank == <<"\n">>

Texts == {TextA, TextB, TextNoId}

RECURSIVE SeqsUpTo(_, _)
SeqsUpTo(S, n) ==
    IF n = 0 THEN {<<>>}
    ELSE LET shorter == SeqsUpTo(S, n - 1)
         IN  shorter \cup { Append(q, x) : q \in shorter, x \in S }

\* all_raw_text.split(delimiter): the segments of the .md files read, in
\* order, and the line break after the last delimiter; <<>> when the input
\* directory holds no .md file
Corpora ==
    { IF q = <<>> THEN q ELSE Append(q, TextBlank) : q \in SeqsUpTo(Texts, MaxSegs) }

\* case numbers the model returns: null, the key left out, a number, text
\* that is no docket number, and "3 1/2566" (digits in the prefix)
LLMCaseNumbers ==
    { Null, Absent, Num,
      Str(<<"a", "b">>),
      Str(<<"3", " ", "1", "/", "2", "5", "6", "6">>) }

LLMObjects ==
    { Obj(c, r) : c \in LLMCaseNumbers, r \in {"full", "bad"} } \cup {EmptyObj}

\* the responses the extraction workers are given: one of each way to fail
\* and every object
LLMResponses ==
    { Resp("error", "ok", NotJson),
      Resp("ok", "error", NotJson),
      Resp("ok", "ok", JDict([choices |-> JNone])),
      Resp("ok", "ok", Body(JNum)),
      Resp("ok", "ok", Body(JText("no_braces", EmptyObj))),
      Resp("ok", "ok", Body(JText("bad_json", EmptyObj))) }
    \cup { Resp("ok", "ok", Body(JText("object", o))) : o \in LLMObjects }

\* what open(..., "w") and json.dump can do: succeed, fail to open, fail
\* after the file was truncated
WriteOutcomes == {"ok", "open_error", "dump_error"}

\* identifiers whose record file may be in the directory before the first run
KnownIds == { SearchCaseId(TextA), SearchCaseId(TextB) }

\* what a record file left by an earlier run or version may hold
InitContents ==
    { ObjFile(Obj(Str(<<"c", "1", "/", "2", "5", "6", "6">>), "full"), "other", "env"),
      ObjFile(Obj(Null, "full"), "other", "env"),
      RawFile("garbage", "env"),
      RawFile("nonobject", "env") }

\* the functions from a subset of names of at most n elements to contents
DirsOver(names, contents, n) ==
    UNION { [D -> contents] : D \in { X \in SUBSET names : Cardinality(X) <= n } }

InitDirs == DirsOver({ OutputFilename(i) : i \in KnownIds }, InitContents, MaxInitFiles)

(***************************************************************************)
(* State.                                                                  *)
(***************************************************************************)
VARIABLES
    corpus,             \* the segments of the input corpus
    env,                \* [key, input_dir]: OPENROUTER_API_KEY set, db_messymd there
    files,              \* the output directory: file name -> content
    args,               \* [force, verify_only]
    run,                \* number of runs of main started
    pc,                 \* where main is
    snap,               \* the output directory when the current run started
    prev,               \* what the previous run did
    existing_case_ids,  \* run_processing: IDs of the files found at its start
    cases_to_process,   \* run_processing: texts of the dispatched segments
    futures,            \* run_processing: one future per task
    counts,             \* run_processing: success, failed, skipped_no_id
    llm_calls,          \* extraction calls made in the current run
    processed,          \* run_processing has returned in the current run
    files_to_check,     \* repair pass: files not yet looked at
    valid_count,        \* repair pass
    repaired_count      \* repair pass

pipeVars ==
    <<corpus, env, files, args, run, pc, snap, prev, existing_case_ids,
      cases_to_process, futures, counts, llm_calls, processed,
      files_to_check, valid_count, repaired_count>>

\* the memo generator
VARIABLES
    rag_pc,           \* where the handler and generate_memo are
    search_results,   \* generate_memo: what search returned
    context_str,      \* generate_memo: the labelled entries of the context
    rag_ret,          \* generate_memo: the pair returned
    llm_invocations,  \* get_completion calls made for the current query
    llm_response,     \* the response the last get_completion call met
    ui                \* what the page shows for the current query

ragVars ==
    <<rag_pc, search_results, context_str, rag_ret, llm_invocations, llm_response, ui>>

\* the vector store
VARIABLES
    store,          \* the collection
    prev_store,     \* the collection before the last add_data call
    last_batch,     \* the arguments of the last add_data call
    repeated,       \* the last call was given the batch of the call before
    prev_clean,     \* no store operation raised in the call before the last
    lookup_failed,  \* some collection.get of the last call raised
    add_raised,     \* collection.add of the last call raised
    store_mode,     \* how collection.add behaved in the last call
    inserted        \* the records the last call reports as added

indexVars ==
    <<store, prev_store, last_batch, repeated, prev_clean, lookup_failed, add_raised,
      store_mode, inserted>>

\* one call of a function on its own: the arguments drawn, and the result
\* once the call has returned
VARIABLES
    u_in,           \* the arguments
    u_out           \* the result

unitVars == <<u_in, u_out>>

NoCall == [op |-> "none"]

UnitIdle == u_in = NoCall /\ u_out = NoCall

ZeroCounts == [success |-> 0, failed |-> 0, skipped_no_id |-> 0]

NoPrev == [processed |-> FALSE, failed |-> 0, repaired |-> 0]

\* the state before main starts, on corpus c, environment e and directory d
PipeStart(c, e, d) ==
    /\ corpus = c
    /\ env = e
    /\ files = d
    /\ args = [force |-> FALSE, verify_only |-> FALSE]
    /\ run = 0
    /\ pc = "idle"
    /\ snap = d
    /\ prev = NoPrev
    /\ existing_case_ids = {}
    /\ cases_to_process = <<>>
    /\ futures = <<>>
    /\ counts = ZeroCounts
    /\ llm_calls = 0
    /\ processed = FALSE
    /\ files_to_check = {}
    /\ valid_count = 0
    /\ repaired_count = 0

PipeInit ==
    \E c \in Corpora, e \in [key : BOOLEAN, input_dir : BOOLEAN], d \in InitDirs :
        PipeStart(c, e, d)

\* the pipeline at rest, for the specifications of the other programs
PipeIdle == PipeStart(<<>>, [key |-> TRUE, input_dir |-> TRUE], <<>>)

(***************************************************************************)
(* main and run_processing.                                                *)
(***************************************************************************)
\* main without the branch: extraction runs whatever the flags
MainStart_AlwaysProcess(force, verify_only) ==
    /\ pc \in {"idle", "done", "exit", "crashed"}
    /\ run < MaxRuns
    /\ run' = run + 1
    /\ args' = [force |-> force, verify_only |-> verify_only]
    /\ pc' = "run_processing"
    /\ snap' = files
    /\ prev' = IF run = 0 THEN NoPrev
               ELSE [processed |-> processed, failed |-> counts.failed,
                     repaired |-> repaired_count]
    /\ existing_case_ids' = {}
    /\ cases_to_process' = <<>>
    /\ futures' = <<>>
    /\ counts' = ZeroCounts
    /\ llm_calls' = 0
    /\ processed' = FALSE
    /\ files_to_check' = {}
    /\ valid_count' = 0
    /\ repaired_count' = 0
    /\ UNCHANGED <<corpus, env, files>>
    /\ UNCHANGED <<ragVars, indexVars, unitVars>>

\* main: parse the flags, make the output directory, branch on --verify-only
MainStart(force, verify_only) ==
    /\ pc \in {"idle", "done", "exit", "crashed"}
    /\ run < MaxRuns
    /\ run' = run + 1
    /\ args' = [force |-> force, verify_only |-> verify_only]
    /\ pc' = IF verify_only THEN "call_repair" ELSE "run_processing"
    /\ snap' = files
    /\ prev' = IF run = 0 THEN NoPrev
               ELSE [processed |-> processed, failed |-> counts.failed,
                     repaired |-> repaired_count]
    /\ existing_case_ids' = {}
    /\ cases_to_process' = <<>>
    /\ futures' = <<>>
    /\ counts' = ZeroCounts
    /\ llm_calls' = 0
    /\ processed' = FALSE
    /\ files_to_check' = {}
    /\ valid_count' = 0
    /\ repaired_count' = 0
    /\ UNCHANGED <<corpus, env, files>>
    /\ UNCHANGED <<ragVars, indexVars, unitVars>>

\* OpenRouterConnector(api_key) raises ValueError without a key: sys.exit(1)
SetupNoKey ==
    /\ pc = "run_processing"
    /\ ~env.key
    /\ pc' = "exit"
    /\ UNCHANGED <<corpus, env, files, args, run, snap, prev, existing_case_ids,
                   cases_to_process, futures, counts, llm_calls, processed,
                   files_to_check, valid_count, repaired_count>>
    /\ UNCHANGED <<ragVars, indexVars, unitVars>>

\* no input directory: run_processing returns
SetupNoInputDir ==
    /\ pc = "run_processing"
    /\ env.key
    /\ ~env.input_dir
    /\ pc' = "call_repair"
    /\ processed' = TRUE
    /\ UNCHANGED <<corpus, env, files, args, run, snap, prev, existing_case_ids,
                   cases_to_process, futures, counts, llm_calls,
                   files_to_check, valid_count, repaired_count>>
    /\ UNCHANGED <<ragVars, indexVars, unitVars>>

\* the scan with the "-" of a file name left as it is: the variant C1 is
\* measured against
ExistingCaseIds_KeepDash(dir, force) ==
    IF force THEN {}
    ELSE { Replace(n, DotJson, <<>>) : n \in { m \in DOMAIN dir : EndsWith(m, DotJson) } }

\* the scan of the output directory: empty under --force
ExistingCaseIds(dir, force) ==
    IF force THEN {}
    ELSE { IdOfFilename(n) : n \in { m \in DOMAIN dir : EndsWith(m, DotJson) } }

\* the filter without its look at the existing IDs: the variant C3 is
\* measured against
IsDispatched_NoSkip(case_text, existing) ==
    /\ Strip(case_text) # <<>>
    /\ SearchCaseId(case_text) # NoMatch

\* whether the filter appends a segment to cases_to_process
IsDispatched(case_text, existing) ==
    /\ Strip(case_text) # <<>>
    /\ SearchCaseId(case_text) # NoMatch
    /\ SearchCaseId(case_text) \notin existing

\* the loop over all_cases_in_files
RECURSIVE CasesToProcess(_, _)
CasesToProcess(segs, existing) ==
    IF segs = <<>> THEN <<>>
    ELSE (IF IsDispatched(Head(segs), existing) THEN <<Strip(Head(segs))>> ELSE <<>>)
         \o CasesToProcess(Tail(segs), existing)

CanScan == pc = "run_processing" /\ env.key /\ env.input_dir

\* no .md file: run_processing returns after the scan
SetupNoMdFiles ==
    /\ CanScan
    /\ corpus = <<>>
    /\ existing_case_ids' = ExistingCaseIds(files, args.force)
    /\ pc' = "call_repair"
    /\ processed' = TRUE
    /\ UNCHANGED <<corpus, env, files, args, run, snap, prev, cases_to_process,
                   futures, counts, llm_calls, files_to_check, valid_count,
                   repaired_count>>
    /\ UNCHANGED <<ragVars, indexVars, unitVars>>

\* nothing left after the filter: run_processing returns
SetupNothingNew ==
    /\ CanScan
    /\ corpus # <<>>
    /\ CasesToProcess(corpus, ExistingCaseIds(files, args.force)) = <<>>
    /\ existing_case_ids' = ExistingCaseIds(files, args.force)
    /\ pc' = "call_repair"
    /\ processed' = TRUE
    /\ UNCHANGED <<corpus, env, files, args, run, snap, prev, cases_to_process,
                   futures, counts, llm_calls, files_to_check, valid_count,
                   repaired_count>>
    /\ UNCHANGED <<ragVars, indexVars, unitVars>>

Submitted == [st |-> "submitted", status |-> "", wrote |-> FALSE, why |-> ""]

\* the tasks are built and all submitted to the pool
SetupDispatch ==
    /\ CanScan
    /\ corpus # <<>>
    /\ CasesToProcess(corpus, ExistingCaseIds(files, args.force)) # <<>>
    /\ existing_case_ids' = ExistingCaseIds(files, args.force)
    /\ cases_to_process' = CasesToProcess(corpus, existing_case_ids')
    /\ futures' = [i \in 1..Len(cases_to_process') |-> Submitted]
    /\ counts' = ZeroCounts
    /\ pc' = "pool"
    /\ UNCHANGED <<corpus, env, files, args, run, snap, prev, llm_calls,
                   processed, files_to_check, valid_count, repaired_count>>
    /\ UNCHANGED <<ragVars, indexVars, unitVars>>

\* the fallback: an invalid case_number is replaced by the provisional ID
\* the data passed on as the LLM gave them, without the fallback: the variant
\* C12 is measured against
CheckedData_NoFallback(json_data, case_id) == json_data

CheckedData(json_data, case_id) ==
    IF IsValidCaseNumber(GetCaseNumber(json_data)) THEN json_data
    ELSE [json_data EXCEPT !.case_number = Str(case_id)]

WorkerOut(status, dir, calls, wrote, why) ==
    [status |-> status, dir |-> dir, calls |-> calls, wrote |-> wrote, why |-> why]

\* a write that reports success whether or not the file could be opened: the
\* variant C4 is measured against
WriteRecord_SuccessOnError(dir, name, data, io) ==
    CASE io = "ok" ->
            WorkerOut("success", WriteFile(dir, name, ObjFile(data, "indent4", "worker")),
                      1, TRUE, "")
      [] io = "open_error" ->
            WorkerOut("success", dir, 1, FALSE, "")
      [] io = "dump_error" ->
            WorkerOut("exception", WriteFile(dir, name, RawFile("garbage", "worker")),
                      1, FALSE, "write")

\* the write of the record file; a failure raises out of the worker
WriteRecord(dir, name, data, io) ==
    CASE io = "ok" ->
            WorkerOut("success", WriteFile(dir, name, ObjFile(data, "indent4", "worker")),
                      1, TRUE, "")
      [] io = "open_error" ->
            WorkerOut("exception", dir, 1, FALSE, "write")
      [] io = "dump_error" ->
            WorkerOut("exception", WriteFile(dir, name, RawFile("garbage", "worker")),
                      1, FALSE, "write")

\* a worker that writes the record before it validates it
process_case_worker_WriteFirst(single_case_text, resp, io, dir) ==
    LET case_id == SearchCaseId(single_case_text)
        json_data == ExtractData(resp)
    IN  IF case_id = NoMatch THEN WorkerOut("skipped_no_id", dir, 0, FALSE, "")
        ELSE IF json_data.tag = "raise"
             THEN WorkerOut("exception", dir, 1, FALSE, "extraction")
        ELSE IF json_data.tag = "obj" /\ Truthy(json_data.obj)
             THEN IF LegalCaseValid(CheckedData(json_data.obj, case_id))
                  THEN WriteRecord(dir, OutputFilename(case_id),
                                   CheckedData(json_data.obj, case_id), io)
                  ELSE WorkerOut("failed",
                                 WriteFile(dir, OutputFilename(case_id),
                                           ObjFile(CheckedData(json_data.obj, case_id),
                                                   "indent4", "worker")),
                                 1, FALSE, "validation")
        ELSE WorkerOut("failed", dir, 1, FALSE, "extraction")

\* process_case_worker on one task: the status returned ("exception" when
\* the worker raises), the directory afterwards, the LLM calls made, whether
\* the record file was written and which step failed
process_case_worker(single_case_text, resp, io, dir) ==
    LET case_id == SearchCaseId(single_case_text)
        json_data == ExtractData(resp)
    IN  IF case_id = NoMatch THEN WorkerOut("skipped_no_id", dir, 0, FALSE, "")
        ELSE IF json_data.tag = "raise"
             THEN WorkerOut("exception", dir, 1, FALSE, "extraction")
        ELSE IF json_data.tag = "obj" /\ Truthy(json_data.obj)
             THEN IF LegalCaseValid(CheckedData(json_data.obj, case_id))
                  THEN WriteRecord(dir, OutputFilename(case_id),
                                   CheckedData(json_data.obj, case_id), io)
                  ELSE WorkerOut("failed", dir, 1, FALSE, "validation")
        ELSE WorkerOut("failed", dir, 1, FALSE, "extraction")

\* a pool thread runs one submitted task
Worker(i) ==
    /\ pc = "pool"
    /\ i \in DOMAIN futures
    /\ futures[i].st = "submitted"
    /\ \E out \in { process_case_worker(cases_to_process[i], resp, io, files) :
                         resp \in LLMResponses, io \in WriteOutcomes } :
             /\ files' = out.dir
             /\ llm_calls' = llm_calls + out.calls
             /\ futures' = [futures EXCEPT ![i] =
                              [st |-> "finished", status |-> out.status,
                               wrote |-> out.wrote, why |-> out.why]]
    /\ UNCHANGED <<corpus, env, args, run, pc, snap, prev, existing_case_ids,
                   cases_to_process, counts, processed, files_to_check,
                   valid_count, repaired_count>>
    /\ UNCHANGED <<ragVars, indexVars, unitVars>>

\* a loop body without its except clause, so that a worker's exception
\* leaves the loop: the variant C5 is measured against
CollectResult_Propagate(c, status) ==
    IF status = "exception" THEN [counts |-> c, raised |-> TRUE]
    ELSE IF status \in DOMAIN c
         THEN [counts |-> [c EXCEPT ![status] = @ + 1], raised |-> FALSE]
    ELSE [counts |-> c, raised |-> FALSE]

\* a loop body whose update overwrites the counter with what it was when the
\* pool started, plus one: an update that loses the ones before it
CollectResult_LostUpdate(c, status) ==
    IF status = "exception" THEN [counts |-> [c EXCEPT !.failed = 1], raised |-> FALSE]
    ELSE IF status \in DOMAIN c
         THEN [counts |-> [c EXCEPT ![status] = 1], raised |-> FALSE]
    ELSE [counts |-> c, raised |-> FALSE]

\* the body of the as_completed loop: future.result() gives the worker's
\* dict or raises the worker's exception, which except Exception counts as
\* failed; raised says whether an exception leaves the loop
CollectResult(c, status) ==
    IF status = "exception" THEN [counts |-> [c EXCEPT !.failed = @ + 1], raised |-> FALSE]
    ELSE IF status \in DOMAIN c
         THEN [counts |-> [c EXCEPT ![status] = @ + 1], raised |-> FALSE]
    ELSE [counts |-> c, raised |-> FALSE]

\* the main thread takes one completed future
Collect(i) ==
    /\ pc = "pool"
    /\ i \in DOMAIN futures
    /\ futures[i].st = "finished"
    /\ counts' = CollectResult(counts, futures[i].status).counts
    /\ pc' = IF CollectResult(counts, futures[i].status).raised THEN "crashed" ELSE pc
    /\ futures' = [futures EXCEPT ![i].st = "collected"]
    /\ UNCHANGED <<corpus, env, files, args, run, snap, prev,
                   existing_case_ids, cases_to_process, llm_calls, processed,
                   files_to_check, valid_count, repaired_count>>
    /\ UNCHANGED <<ragVars, indexVars, unitVars>>

\* run_processing returning as soon as one future was collected, the pool
\* not waited for
PoolDrained_NoWait ==
    /\ pc = "pool"
    /\ \E i \in DOMAIN futures : futures[i].st = "collected"
    /\ pc' = "call_repair"
    /\ processed' = TRUE
    /\ UNCHANGED <<corpus, env, files, args, run, snap, prev, existing_case_ids,
                   cases_to_process, futures, counts, llm_calls,
                   files_to_check, valid_count, repaired_count>>
    /\ UNCHANGED <<ragVars, indexVars, unitVars>>

\* as_completed is exhausted and the pool shut down: the counts are logged
\* and run_processing returns
PoolDrained ==
    /\ pc = "pool"
    /\ \A i \in DOMAIN futures : futures[i].st = "collected"
    /\ pc' = "call_repair"
    /\ processed' = TRUE
    /\ UNCHANGED <<corpus, env, files, args, run, snap, prev, existing_case_ids,
                   cases_to_process, futures, counts, llm_calls,
                   files_to_check, valid_count, repaired_count>>
    /\ UNCHANGED <<ragVars, indexVars, unitVars>>


(***************************************************************************)
(* run_verification_and_repair.                                            *)
(***************************************************************************)
\* the listing both passes make: the .json files but the consolidated one
RecordFiles(dir) ==
    { n \in DOMAIN dir : EndsWith(n, DotJson) /\ n # combined_filename_leaf }

\* the listing; no file: the pass returns at once
RepairBegin ==
    /\ pc = "call_repair"
    /\ files_to_check' = RecordFiles(files)
    /\ valid_count' = 0
    /\ repaired_count' = 0
    /\ pc' = IF RecordFiles(files) = {} THEN "repair_done" ELSE "repairing"
    /\ UNCHANGED <<corpus, env, files, args, run, snap, prev, existing_case_ids,
                   cases_to_process, futures, counts, llm_calls, processed>>
    /\ UNCHANGED <<ragVars, indexVars, unitVars>>

RepairOut(result, dir) == [result |-> result, dir |-> dir]

\* a rewrite that takes the file name without its extension as the
\* case_number, "-" and all: the variant C2 is measured against
RepairedFile_KeepDash(content, filename) ==
    ObjFile([content.obj EXCEPT !.case_number = Str(Replace(filename, DotJson, <<>>))],
            "indent4", "repair")

\* the file rewritten in place with the case_number taken from its name
RepairedFile(content, filename) ==
    ObjFile([content.obj EXCEPT !.case_number = Str(IdOfFilename(filename))],
            "indent4", "repair")

\* a loop body that rewrites the valid files too: the variant C7 is measured
\* against
RepairOne_AlwaysRewrite(dir, filename) ==
    LET content == dir[filename]
    IN  CASE content.kind \in {"garbage", "empty", "unreadable"} ->
                RepairOut("skipped", dir)
          [] content.kind \in {"nonobject", "array", "badutf8"} ->
                RepairOut("crash", dir)
          [] content.kind = "object" ->
                RepairOut(IF IsValidCaseNumber(GetCaseNumberOrEmpty(content.obj))
                               THEN "valid" ELSE "repaired",
                               WriteFile(dir, filename, RepairedFile(content, filename)))

\* the body of the loop for one file: "valid", "repaired", "skipped" (the
\* JSONDecodeError or IOError caught) or "crash" (any other exception:
\* AttributeError of data.get on a value that is no dict, UnicodeDecodeError)
RepairOne(dir, filename) ==
    LET content == dir[filename]
    IN  CASE content.kind \in {"garbage", "empty", "unreadable"} ->
                RepairOut("skipped", dir)
          [] content.kind \in {"nonobject", "array", "badutf8"} ->
                RepairOut("crash", dir)
          [] content.kind = "object" ->
                IF IsValidCaseNumber(GetCaseNumberOrEmpty(content.obj))
                THEN RepairOut("valid", dir)
                ELSE RepairOut("repaired",
                               WriteFile(dir, filename, RepairedFile(content, filename)))

\* one iteration of the loop, in the order os.listdir happens to give
RepairFile(filename) ==
    /\ pc = "repairing"
    /\ filename \in files_to_check
    /\ LET out == RepairOne(files, filename)
       IN  /\ files' = out.dir
           /\ valid_count' = valid_count + (IF out.result = "valid" THEN 1 ELSE 0)
           /\ repaired_count' = repaired_count + (IF out.result = "repaired" THEN 1 ELSE 0)
           /\ pc' = IF out.result = "crash" THEN "crashed" ELSE "repairing"
    /\ files_to_check' = files_to_check \ {filename}
    /\ UNCHANGED <<corpus, env, args, run, snap, prev, existing_case_ids,
                   cases_to_process, futures, counts, llm_calls, processed>>
    /\ UNCHANGED <<ragVars, indexVars, unitVars>>

\* the loop is over: the two counts are logged
RepairReturn ==
    /\ pc = "repairing"
    /\ files_to_check = {}
    /\ pc' = "repair_done"
    /\ UNCHANGED <<corpus, env, files, args, run, snap, prev, existing_case_ids,
                   cases_to_process, futures, counts, llm_calls, processed,
                   files_to_check, valid_count, repaired_count>>
    /\ UNCHANGED <<ragVars, indexVars, unitVars>>

(***************************************************************************)
(* update_combined_file.                                                   *)
(***************************************************************************)
\* the characters of the model in code-point order
CharOrder ==
    <<"\n", " ", "-", ".", "/", "0", "1", "2", "3", "4", "5", "6", "7", "8", "9",
      "A", "B", "C", "D", "E", "I", "L", "M", "N", "O", "S", "_",
      "a", "b", "c", "j", "n", "o", "s", "x", "TH1", "TH2", "TH5", "TH6">>

Ord(c) == CHOOSE k \in DOMAIN CharOrder : CharOrder[k] = c

\* str.lower on one character
LowerChar(c) ==
    CASE c = "A" -> "a" [] c = "B" -> "b" [] c = "C" -> "c" [] c = "D" -> "d"
      [] c = "E" -> "e" [] c = "I" -> "i" [] c = "L" -> "l" [] c = "M" -> "m"
      [] c = "N" -> "n" [] c = "O" -> "o" [] c = "S" -> "s" [] OTHER -> c

Lower(s) == [k \in DOMAIN s |-> LowerChar(s[k])]

\* length of the longest prefix of s whose characters are all in [0-9] (d) or
\* all outside it (~d)
RECURSIVE PrefixLen(_, _)
PrefixLen(s, d) ==
    IF s # <<>> /\ (IsAsciiDigit(Head(s)) <=> d) THEN 1 + PrefixLen(Tail(s), d) ELSE 0

\* the value of a decimal digit
DigitValue(c) ==
    CASE c = "TH1" -> 1 [] c = "TH2" -> 2 [] c = "TH5" -> 5 [] c = "TH6" -> 6
      [] OTHER -> Ord(c) - Ord("0")

\* int(text) of a run of digits
RECURSIVE IntOf(_)
IntOf(s) ==
    IF s = <<>> THEN 0
    ELSE 10 * IntOf(SubSeq(s, 1, Len(s) - 1)) + DigitValue(s[Len(s)])

\* text.isdigit()
isdigit(text) == text # <<>> /\ \A k \in DOMAIN text : IsDigit(text[k])

TextElem(s) == [d |-> FALSE, n |-> 0, s |-> s]

IntElem(n) == [d |-> TRUE, n |-> n, s |-> <<>>]

\* int(text) if text.isdigit() else text.lower()
KeyElem(text) == IF isdigit(text) THEN IntElem(IntOf(text)) ELSE TextElem(Lower(text))

\* [int(text) if text.isdigit() else text.lower()
\*  for text in re.split('([0-9]+)', s)]: the pieces between the runs of
\* [0-9] and the runs in turn, a piece first and last
RECURSIVE SplitKey(_)
SplitKey(s) ==
    LET k == PrefixLen(s, FALSE)
        rest == SubSeq(s, k + 1, Len(s))
        m == PrefixLen(rest, TRUE)
    IN  IF rest = <<>> THEN <<KeyElem(s)>>
        ELSE <<KeyElem(SubSeq(s, 1, k)), KeyElem(SubSeq(rest, 1, m))>>
             \o SplitKey(SubSeq(rest, m + 1, Len(rest)))

natural_sort_key(s) == SplitKey(Replace(s, DotJson, <<>>))

\* str < str
RECURSIVE StrLess(_, _)
StrLess(a, b) ==
    IF b = <<>> THEN FALSE
    ELSE IF a = <<>> THEN TRUE
    ELSE IF Head(a) = Head(b) THEN StrLess(Tail(a), Tail(b))
    ELSE Ord(Head(a)) < Ord(Head(b))

\* x < y for two elements of a key; an int against a str is a TypeError
ElemLess(x, y) ==
    CASE x.d /\ y.d   -> x.n < y.n
      [] ~x.d /\ ~y.d -> StrLess(x.s, y.s)

\* list < list
RECURSIVE KeyLess(_, _)
KeyLess(a, b) ==
    IF b = <<>> THEN FALSE
    ELSE IF a = <<>> THEN TRUE
    ELSE IF Head(a) = Head(b) THEN KeyLess(Tail(a), Tail(b))
    ELSE ElemLess(Head(a), Head(b))

\* list < list raises TypeError: the first elements that differ are an int
\* and a str
RECURSIVE Incomparable(_, _)
Incomparable(a, b) ==
    /\ a # <<>>
    /\ b # <<>>
    /\ IF Head(a) = Head(b) THEN Incomparable(Tail(a), Tail(b))
       ELSE Head(a).d # Head(b).d

\* sorted raises TypeError: a sort that ends has compared every two
\* neighbours of its result, and between two keys that cannot be compared
\* stands none that can be compared with both
SortRaises(S) ==
    \E m, n \in S : Incomparable(natural_sort_key(m), natural_sort_key(n))

\* sorted(file_list, key=natural_sort_key)
RECURSIVE SortedFiles(_)
SortedFiles(S) ==
    IF S = {} THEN <<>>
    ELSE LET least == CHOOSE n \in S :
                        \A m \in S : ~KeyLess(natural_sort_key(m), natural_sort_key(n))
         IN  <<least>> \o SortedFiles(S \ {least})

\* what json.load gives for one record file
Loaded(content) == [kind |-> content.kind, obj |-> content.obj]

\* the loop over the sorted files: the list all_successful_cases; a file of
\* size 0, one that cannot be opened and one that does not decode are left out
RECURSIVE LoadAll(_, _)
LoadAll(dir, names) ==
    IF names = <<>> THEN <<>>
    ELSE (IF dir[Head(names)].kind \in {"object", "nonobject", "array"}
          THEN <<Loaded(dir[Head(names)])>> ELSE <<>>)
         \o LoadAll(dir, Tail(names))

\* the TypeError of sorted is raised outside the try; a file whose bytes are
\* no UTF-8 raises UnicodeDecodeError, which the loop does not catch
CombineCrashes(dir) ==
    \/ SortRaises(RecordFiles(dir))
    \/ \E n \in RecordFiles(dir) : dir[n].kind = "badutf8"

\* update_combined_file, but writing the artifact whatever the list holds
Combined_AlwaysWrite(dir) ==
    LET items == LoadAll(dir, SortedFiles(RecordFiles(dir)))
    IN  WriteFile(dir, combined_filename_leaf, ArrayFile(items, "combine"))

\* update_combined_file, but adding to the list the artifact already holds
Combined_KeepPrevious(dir) ==
    LET items == LoadAll(dir, SortedFiles(RecordFiles(dir)))
        before == IF combined_filename_leaf \in DOMAIN dir
                  THEN dir[combined_filename_leaf].items ELSE <<>>
    IN  IF items = <<>> THEN dir
        ELSE WriteFile(dir, combined_filename_leaf, ArrayFile(before \o items, "combine"))

\* the directory after update_combined_file: the artifact is written only
\* when the list is not empty
Combined(dir) ==
    LET items == LoadAll(dir, SortedFiles(RecordFiles(dir)))
    IN  IF items = <<>> THEN dir
        ELSE WriteFile(dir, combined_filename_leaf, ArrayFile(items, "combine"))

\* main calls update_combined_file after the repair pass and ends
Combine ==
    /\ pc = "repair_done"
    /\ files' = IF CombineCrashes(files) THEN files ELSE Combined(files)
    /\ pc' = IF CombineCrashes(files) THEN "crashed" ELSE "done"
    /\ UNCHANGED <<corpus, env, args, run, snap, prev, existing_case_ids,
                   cases_to_process, futures, counts, llm_calls, processed,
                   files_to_check, valid_count, repaired_count>>
    /\ UNCHANGED <<ragVars, indexVars, unitVars>>

PipeNext ==
    \/ \E force \in BOOLEAN, verify_only \in BOOLEAN : MainStart(force, verify_only)
    \/ SetupNoKey
    \/ SetupNoInputDir
    \/ SetupNoMdFiles
    \/ SetupNothingNew
    \/ SetupDispatch
    \/ \E i \in DOMAIN futures : Worker(i)
    \/ \E i \in DOMAIN futures : Collect(i)
    \/ PoolDrained
    \/ RepairBegin
    \/ \E filename \in files_to_check : RepairFile(filename)
    \/ RepairReturn
    \/ Combine

(***************************************************************************)
(* The memo generator of chatbot_app.py and its Streamlit handler.         *)
(***************************************************************************)
\* at most MaxDocs documents come back from one search
MaxDocs == 2

\* doc[:250] keeps at most PreviewLen characters
PreviewLen == 250

\* a document: which text it is and how many characters it has
Documents == { [text |-> "doc1", len |-> 100], [text |-> "doc2", len |-> 251] }

\* doc[:n]
Truncated(doc, n) == [text |-> doc.text, len |-> IF doc.len < n THEN doc.len ELSE n]

\* the metadata stored with a document: its case number, or none
Metadatas == {"1/2566", "no_case_number"}

\* a list of n (document, metadata) pairs
Hits == SeqsUpTo(Documents \X Metadatas, MaxDocs)

\* collection.query's result: documents and metadatas are lists holding one
\* list per query
QueryResult(hits) ==
    JDict([documents |-> JList(<<JList([k \in DOMAIN hits |-> hits[k][1]])>>),
           metadatas |-> JList(<<JList([k \in DOMAIN hits |-> hits[k][2]])>>)])

\* what VectorDBConnector.search can return: None (an exception was caught
\* and shown), a dict without documents, with documents null or an empty
\* list, or a query result with zero or more hits
SearchResults ==
    { JNone,
      JDict(<<>>),
      JDict([documents |-> JNone]),
      JDict([documents |-> JList(<<>>)]) }
    \cup { QueryResult(h) : h \in Hits }

\* the texts the LLM may answer a prompt with: a memo that keeps to the
\* context it was given ("memo"), and one whose section on the applicable
\* law cites a provision that is not in the context ("memo_ungrounded")
MemoTexts == {"memo", "memo_ungrounded"}

\* the contents the memo model answers with: a memo, and the object answers
\* of the extraction model's kind
MemoResponses ==
    FailedResponses
    \cup { Resp("ok", "ok", Body(JText(k, EmptyObj))) : k \in MemoTexts }

NoReturn == [memo |-> JNone, sources |-> <<>>]

\* no completion call has been made for the current query
NoResponse == Resp("none", "none", NotJson)

RagInit ==
    /\ rag_pc = "Idle"
    /\ search_results = JNone
    /\ context_str = <<>>
    /\ rag_ret = NoReturn
    /\ llm_invocations = 0
    /\ llm_response = NoResponse
    /\ ui = {}

RagTerminal == {"Idle", "NoResults", "MemoAvailable", "GenerationFailed", "Crashed"}

\* the button is pressed: blank facts are refused, others go to generate_memo
RagClick(blank) ==
    /\ rag_pc \in RagTerminal
    /\ rag_pc' = IF blank THEN "Idle" ELSE "Retrieving"
    /\ ui' = IF blank THEN {"error_blank_facts"} ELSE {}
    /\ search_results' = JNone
    /\ context_str' = <<>>
    /\ rag_ret' = NoReturn
    /\ llm_invocations' = 0
    /\ llm_response' = NoResponse
    /\ UNCHANGED <<pipeVars, indexVars, unitVars>>

\* self.vector_db.search(case_facts): None stands for an exception of the
\* encoder or the store, caught and shown
RagSearch(res) ==
    /\ rag_pc = "Retrieving"
    /\ search_results' = res
    /\ rag_pc' = "Retrieved"
    /\ ui' = IF res = JNone THEN ui \cup {"error_search"} ELSE ui
    /\ UNCHANGED <<context_str, rag_ret, llm_invocations, llm_response>>
    /\ UNCHANGED <<pipeVars, indexVars, unitVars>>

\* the test without its look into the inner list: the variant C8 is measured
\* against
NoDocuments_OuterOnly(res) ==
    \/ ~TruthyVal(res)
    \/ ~TruthyVal(Get(res, "documents", JNone).val)

\* not search_results or not search_results.get('documents')
\* or not search_results['documents'][0]
NoDocuments(res) ==
    \/ ~TruthyVal(res)
    \/ ~TruthyVal(Get(res, "documents", JNone).val)
    \/ ~TruthyVal(Index0(Get(res, "documents", JNone).val).val)

\* the short circuit: the warning and (None, []); the handler, given no
\* memo, shows its error
RagNoResults ==
    /\ rag_pc = "Retrieved"
    /\ NoDocuments(search_results)
    /\ ui' = ui \cup {"warning_no_reference", "error_no_memo"}
    /\ rag_ret' = [memo |-> JNone, sources |-> <<>>]
    /\ rag_pc' = "NoResults"
    /\ UNCHANGED <<search_results, context_str, llm_invocations, llm_response>>
    /\ UNCHANGED <<pipeVars, indexVars, unitVars>>

\* search_results['documents'][0] and search_results['metadatas'][0]
ContextDocs(res) == res.f["documents"].items[1].items

ContextMetas(res) == res.f["metadatas"].items[1].items

\* meta.get('case_number', 'N/A')
CaseNumOf(meta) == IF meta = "no_case_number" THEN "N/A" ELSE meta

\* zip(context_docs, metadatas)
Zipped(docs, metas) ==
    [k \in 1..(IF Len(docs) < Len(metas) THEN Len(docs) ELSE Len(metas)) |->
        <<docs[k], metas[k]>>]

\* the loop that builds context_str: one labelled entry per pair
ContextEntries(res) ==
    LET z == Zipped(ContextDocs(res), ContextMetas(res))
    IN  [k \in DOMAIN z |-> [label |-> k, case_num |-> CaseNumOf(z[k][2]), doc |-> z[k][1]]]

\* the list of source excerpts, but every one tagged with the case number of
\* the first metadata
Sources_FirstTag(res) ==
    LET z == Zipped(ContextDocs(res), ContextMetas(res))
    IN  [k \in DOMAIN z |->
            [case_num |-> CaseNumOf(z[1][2]), excerpt |-> Truncated(z[k][1], PreviewLen)]]

\* the list of source excerpts: doc[:250] tagged with the case number
Sources(res) ==
    LET z == Zipped(ContextDocs(res), ContextMetas(res))
    IN  [k \in DOMAIN z |->
            [case_num |-> CaseNumOf(z[k][2]), excerpt |-> Truncated(z[k][1], PreviewLen)]]

RagBuildContext ==
    /\ rag_pc = "Retrieved"
    /\ ~NoDocuments(search_results)
    /\ context_str' = ContextEntries(search_results)
    /\ rag_pc' = "ContextBuilt"
    /\ UNCHANGED <<search_results, rag_ret, llm_invocations, llm_response, ui>>
    /\ UNCHANGED <<pipeVars, indexVars, unitVars>>

\* the prompt is filled and sent
RagSend ==
    /\ rag_pc = "ContextBuilt"
    /\ rag_pc' = "Generating"
    /\ llm_invocations' = llm_invocations + 1
    /\ UNCHANGED <<search_results, context_str, rag_ret, llm_response, ui>>
    /\ UNCHANGED <<pipeVars, indexVars, unitVars>>

\* what get_completion shows with st.error before it returns None
CompletionErrors(resp) ==
    IF resp.net # "ok" \/ resp.status # "ok" THEN {"error_api_connection"}
    ELSE IF resp.body = NotJson THEN {"error_api_result"}
    ELSE IF ContentOf(resp.body).exc \in CaughtShapeErrors THEN {"error_api_result"}
    ELSE {}

\* what generate_memo does with the outcome of get_completion: the pair it
\* returns, or the exception it lets through
MemoOutcome(completion, res) ==
    IF completion.tag = "raise" THEN [raised |-> TRUE, ret |-> NoReturn]
    ELSE [raised |-> FALSE, ret |-> [memo |-> completion.val, sources |-> Sources(res)]]

\* self.llm.get_completion(final_prompt) comes back
RagGenerate(resp) ==
    /\ rag_pc = "Generating"
    /\ LET out == MemoOutcome(GetCompletion(resp), search_results)
       IN  /\ rag_ret' = out.ret
           /\ rag_pc' = IF out.raised THEN "Crashed" ELSE "Returned"
           /\ ui' = ui \cup CompletionErrors(resp)
                       \cup (IF out.raised THEN {"exception"} ELSE {})
    /\ llm_response' = resp
    /\ UNCHANGED <<search_results, context_str, llm_invocations>>
    /\ UNCHANGED <<pipeVars, indexVars, unitVars>>

\* the handler after generate_memo returned a pair with a memo
RagShowMemo ==
    /\ rag_pc = "Returned"
    /\ TruthyVal(rag_ret.memo)
    /\ ui' = ui \cup {"memo"} \cup (IF rag_ret.sources # <<>> THEN {"sources"} ELSE {})
    /\ rag_pc' = "MemoAvailable"
    /\ UNCHANGED <<search_results, context_str, rag_ret, llm_invocations, llm_response>>
    /\ UNCHANGED <<pipeVars, indexVars, unitVars>>

\* the handler after generate_memo returned without a memo
RagShowFailure ==
    /\ rag_pc = "Returned"
    /\ ~TruthyVal(rag_ret.memo)
    /\ ui' = ui \cup {"error_no_memo"}
    /\ rag_pc' = "GenerationFailed"
    /\ UNCHANGED <<search_results, context_str, rag_ret, llm_invocations, llm_response>>
    /\ UNCHANGED <<pipeVars, indexVars, unitVars>>

RagNext ==
    \/ \E blank \in BOOLEAN : RagClick(blank)
    \/ \E res \in SearchResults : RagSearch(res)
    \/ RagNoResults
    \/ RagBuildContext
    \/ RagSend
    \/ \E resp \in MemoResponses : RagGenerate(resp)
    \/ RagShowMemo
    \/ RagShowFailure


(***************************************************************************)
(* ChromaDBManager.add_data of vector_creation.py.  The collection is the  *)
(* sequence of its entries in insertion order.                             *)
(***************************************************************************)
\* a batch holds at most MaxBatch records
MaxBatch == 2

DocIds == {"case_1-2566", "case_2-2567"}

\* a record of a batch: its id and which of two payloads (vector, document
\* and metadata) it carries
Rows == [id : DocIds, emb : {"v1", "v2"}, doc : {"t1", "t2"}, meta : {"m1", "m2"}]

\* the records the model draws from: the payloads vary together
BatchRows ==
    { r \in Rows : (r.emb = "v1" /\ r.doc = "t1" /\ r.meta = "m1")
                   \/ (r.emb = "v2" /\ r.doc = "t2" /\ r.meta = "m2") }

Batches == SeqsUpTo(BatchRows, MaxBatch)

IndexInit ==
    /\ store = <<>>
    /\ prev_store = <<>>
    /\ last_batch = [rows |-> <<>>, lengths_equal |-> TRUE]
    /\ repeated = FALSE
    /\ prev_clean = TRUE
    /\ lookup_failed = FALSE
    /\ add_raised = FALSE
    /\ store_mode = "lenient"
    /\ inserted = 0

StoredIds(coll) == { coll[k].id : k \in DOMAIN coll }

\* is_id_exist: len(collection.get(ids=[doc_id])['ids']) > 0, and False when
\* the lookup raises
is_id_exist(coll, doc_id, get_raises) ==
    IF get_raises THEN FALSE ELSE doc_id \in StoredIds(coll)

\* the loop over zip(embeddings, documents, metadatas, ids): the records
\* whose id is_id_exist does not find; fails is the set of positions whose
\* lookup raises
RECURSIVE NewRecords(_, _, _, _)
NewRecords(coll, batch, k, fails) ==
    IF k > Len(batch) THEN <<>>
    ELSE (IF is_id_exist(coll, batch[k].id, k \in fails) THEN <<>> ELSE <<batch[k]>>)
         \o NewRecords(coll, batch, k + 1, fails)

HasDuplicateIds(rows) ==
    \E j, k \in DOMAIN rows : j # k /\ rows[j].id = rows[k].id

\* the records of rows whose id the collection does not hold yet
RECURSIVE Fresh(_, _)
Fresh(coll, rows) ==
    IF rows = <<>> THEN <<>>
    ELSE (IF Head(rows).id \in StoredIds(coll) THEN <<>> ELSE <<Head(rows)>>)
         \o Fresh(coll, Tail(rows))

\* collection.add that appends whatever it is given: the variant C10 is
\* measured against
collection_add_Append(coll, rows, lib) ==
    [raised |-> FALSE, coll |-> coll \o rows]

\* collection.add: a batch with one id twice is refused (DuplicateIDError)
\* and nothing is added; a record whose id is already stored is left out
\* ("lenient") or, in the releases that check it ("strict"), makes the call
\* raise; "failing" is a call that raises for a reason of the store's own
collection_add(coll, rows, lib) ==
    IF lib = "failing" \/ HasDuplicateIds(rows) THEN [raised |-> TRUE, coll |-> coll]
    ELSE IF lib = "strict" /\ Fresh(coll, rows) # rows THEN [raised |-> TRUE, coll |-> coll]
    ELSE [raised |-> FALSE, coll |-> coll \o Fresh(coll, rows)]

StoreBehaviours == {"lenient", "strict", "failing"}

\* add_data after its two argument checks: nothing new returns at once; an
\* exception of collection.add is logged, otherwise len(new_ids) is reported
AddDataResult(coll, batch, fails, lib) ==
    LET new == NewRecords(coll, batch, 1, fails)
    IN  IF new = <<>> THEN [coll |-> coll, inserted |-> 0, raised |-> FALSE]
        ELSE [coll |-> collection_add(coll, new, lib).coll,
              inserted |-> IF collection_add(coll, new, lib).raised THEN 0 ELSE Len(new),
              raised |-> collection_add(coll, new, lib).raised]

\* add_data(embeddings, documents, metadatas, ids); lengths_equal is the
\* check that the four arguments have one length
AddData(batch, lengths_equal, fails, lib) ==
    /\ prev_store' = store
    /\ last_batch' = [rows |-> batch, lengths_equal |-> lengths_equal]
    /\ repeated' = (last_batch' = last_batch /\ batch # <<>>)
    /\ prev_clean' = (~lookup_failed /\ ~add_raised)
    /\ lookup_failed' = (lengths_equal /\ fails # {})
    /\ add_raised' = (lengths_equal /\ AddDataResult(store, batch, fails, lib).raised)
    /\ store_mode' = lib
    /\ store' = IF lengths_equal THEN AddDataResult(store, batch, fails, lib).coll ELSE store
    /\ inserted' = IF lengths_equal THEN AddDataResult(store, batch, fails, lib).inserted
                   ELSE 0
    /\ UNCHANGED <<pipeVars, ragVars, unitVars>>

IndexNext ==
    \E batch \in Batches, lengths_equal \in BOOLEAN, lib \in StoreBehaviours :
        \E fails \in SUBSET (DOMAIN batch) : AddData(batch, lengths_equal, fails, lib)

(***************************************************************************)
(* Specifications.                                                         *)
(***************************************************************************)
vars == <<pipeVars, ragVars, indexVars, unitVars>>

\* the extraction pipeline: main run up to MaxRuns times on one corpus
Init == PipeInit /\ RagInit /\ IndexInit /\ UnitIdle

Next == PipeNext

Spec == Init /\ [][Next]_vars

\* the memo generator: one query after another
InitRag == PipeIdle /\ RagInit /\ IndexInit /\ UnitIdle

NextRag == RagNext

SpecRag == InitRag /\ [][NextRag]_vars

\* main --verify-only run up to MaxRuns times on a directory of record files
\* left by earlier runs or versions
RepairContents ==
    { ObjFile(Obj(Str(<<"c", "1", "/", "2", "5", "6", "6">>), "full"), "other", "env"),
      ObjFile(Obj(Str(<<"2", "/", "2", "5", "6", "7">>), "opt_absent"), "indent4", "worker"),
      ObjFile(Obj(Null, "full"), "other", "env"),
      ObjFile(Obj(Absent, "opt_absent"), "indent4", "env"),
      ObjFile(Obj(Str(<<"a", "b">>), "bad"), "other", "env"),
      ObjFile(Obj(Str(<<>>), "full"), "indent4", "env"),
      ObjFile(Obj(Num, "full"), "other", "env"),
      RawFile("garbage", "worker"),
      RawFile("empty", "env"),
      RawFile("unreadable", "env"),
      RawFile("nonobject", "env"),
      RawFile("badutf8", "env") }

RepairNames == { OutputFilename(i) : i \in KnownIds }

RepairDirs == DirsOver(RepairNames, RepairContents, MaxRepairFiles)

\* a case an earlier run combined whose record file is gone since
StaleCase ==
    [kind |-> "object", obj |-> Obj(Str(<<"9", "/", "2", "5", "6", "0">>), "full")]

\* the directory d, with the consolidated artifact of an earlier run if there
\* was one
WithArtifact(d, present) ==
    IF present THEN WriteFile(d, combined_filename_leaf, ArrayFile(<<StaleCase>>, "env"))
    ELSE d

InitRepair ==
    /\ \E d \in RepairDirs, present \in BOOLEAN :
          PipeStart(<<>>, [key |-> TRUE, input_dir |-> TRUE], WithArtifact(d, present))
    /\ RagInit
    /\ IndexInit
    /\ UnitIdle

NextRepair ==
    \/ MainStart(FALSE, TRUE)
    \/ RepairBegin
    \/ \E filename \in files_to_check : RepairFile(filename)
    \/ RepairReturn
    \/ Combine

SpecRepair == InitRepair /\ [][NextRepair]_vars

\* process_case_worker called once on an empty output directory, for every
\* segment, LLM response and outcome of the write
WorkerCaseNumbers == LLMCaseNumbers \cup { Str(i) : i \in KnownIds }

WorkerResponses ==
    LLMResponses
    \cup { Resp("ok", "ok", Body(JText("object", Obj(c, r)))) :
             c \in WorkerCaseNumbers, r \in {"full", "opt_absent", "bad"} }

InitWorker ==
    /\ PipeIdle
    /\ RagInit
    /\ IndexInit
    /\ u_out = NoCall
    /\ \E t \in Texts, resp \in WorkerResponses, io \in WriteOutcomes :
          u_in = [op |-> "worker", text |-> Strip(t), resp |-> resp, io |-> io]

WorkerCall ==
    /\ u_in.op = "worker"
    /\ u_out = NoCall
    /\ u_out' = [op |-> "worker",
                 out |-> process_case_worker(u_in.text, u_in.resp, u_in.io, <<>>)]
    /\ UNCHANGED <<u_in, pipeVars, ragVars, indexVars>>

NextWorker == WorkerCall

SpecWorker == InitWorker /\ [][NextWorker]_vars

\* One extraction: session.post under the Retry strategy of the connector,
\* then get_completion, extract_data_for_single_case and the worker.
\* The model lets one call make at most AttemptCap HTTP attempts.
AttemptCap == 7

\* Retry(total=5, ...)
RetryTotal == 5

\* status_forcelist=[429, 500, 502, 503, 504]
status_forcelist == {429, 500, 502, 503, 504}

\* what one HTTP attempt can meet: no connection or no answer in time, a
\* status of the list, another error status, or 200 with a body
ConnError == [kind |-> "conn_error", code |-> 0, body |-> NotJson]

HttpStatus(c) == [kind |-> "response", code |-> c, body |-> NotJson]

HttpOk(b) == [kind |-> "response", code |-> 200, body |-> b]

NoAttempt == [kind |-> "none", code |-> 0, body |-> NotJson]

ExtractBodies ==
    { NotJson,
      JDict([choices |-> JList(<<>>)]),
      Body(JText("no_braces", EmptyObj)),
      Body(JText("bad_json", EmptyObj)),
      Body(JText("object", Obj(Null, "full"))) }

AttemptOutcomes ==
    {ConnError}
    \cup { HttpStatus(c) : c \in status_forcelist \cup {400, 404} }
    \cup { HttpOk(b) : b \in ExtractBodies }

\* a retry decision that never looks at the total: the variant C15 is
\* measured against
IsRetried_NoCeiling(outcome, retries_done) ==
    outcome.kind = "conn_error" \/ outcome.code \in status_forcelist

\* urllib3's decision after an attempt: retry a connection or read error
\* (POST is in allowed_methods) and a status of the list, while the total
\* is not used up
IsRetried(outcome, retries_done) ==
    /\ outcome.kind = "conn_error" \/ outcome.code \in status_forcelist
    /\ retries_done < RetryTotal

\* what get_completion sees when the adapter gives up or answers
FinalResponse(outcome) ==
    IF outcome.kind = "conn_error" THEN Resp("error", "ok", NotJson)
    ELSE IF outcome.code # 200 THEN Resp("ok", "error", NotJson)
    ELSE Resp("ok", "ok", outcome.body)

InitExtract ==
    /\ PipeIdle
    /\ RagInit
    /\ IndexInit
    /\ \E io \in WriteOutcomes :
          u_in = [op |-> "extract", text |-> Strip(TextA), io |-> io]
    /\ u_out = [op |-> "extract", phase |-> "sending", attempts |-> 0,
                last |-> NoAttempt, status |-> "", calls |-> 0]

\* one HTTP attempt of session.post
ExtractAttempt(outcome) ==
    /\ u_out.op = "extract"
    /\ u_out.phase = "sending"
    /\ u_out.attempts < AttemptCap
    /\ u_out' = [u_out EXCEPT
                   !.attempts = @ + 1,
                   !.last = outcome,
                   !.phase = IF IsRetried(outcome, u_out.attempts) THEN "sending"
                             ELSE "answered"]
    /\ UNCHANGED <<u_in, pipeVars, ragVars, indexVars>>

\* session.post has returned or raised: the rest of the worker
ExtractReturn ==
    /\ u_out.op = "extract"
    /\ u_out.phase = "answered"
    /\ LET out == process_case_worker(u_in.text, FinalResponse(u_out.last), u_in.io, <<>>)
       IN  u_out' = [u_out EXCEPT !.phase = "returned", !.status = out.status,
                                  !.calls = out.calls]
    /\ UNCHANGED <<u_in, pipeVars, ragVars, indexVars>>

NextExtract ==
    \/ \E outcome \in AttemptOutcomes : ExtractAttempt(outcome)
    \/ ExtractReturn

SpecExtract == InitExtract /\ [][NextExtract]_vars

\* the vector store: one add_data call after another
InitIndex == PipeIdle /\ RagInit /\ IndexInit /\ UnitIdle

NextIndex == IndexNext

SpecIndex == InitIndex /\ [][NextIndex]_vars

(***************************************************************************)
(* Extraction runs on a corpus in which two segments may name the same     *)
(* case first.                                                             *)
(***************************************************************************)
\* "1/2566 b": provisional ID 1/2566, as TextA
TextA2 == <<"1", "/", "2", "5", "6", "6", " ", "b">>

PoolCorpora == SeqsUpTo({TextA, TextA2, TextB}, MaxSegs) \ {<<>>}

InitPool ==
    /\ \E c \in PoolCorpora : PipeStart(c, [key |-> TRUE, input_dir |-> TRUE], <<>>)
    /\ RagInit
    /\ IndexInit
    /\ UnitIdle

NextPool ==
    \/ \E force \in BOOLEAN : MainStart(force, FALSE)
    \/ SetupNothingNew
    \/ SetupDispatch
    \/ \E i \in DOMAIN futures : Worker(i)
    \/ \E i \in DOMAIN futures : Collect(i)
    \/ PoolDrained
    \/ RepairBegin
    \/ \E filename \in files_to_check : RepairFile(filename)
    \/ RepairReturn
    \/ Combine

SpecPool == InitPool /\ [][NextPool]_vars

(***************************************************************************)
(* The parse of the LLM's text in extract_data_for_single_case.  A text is *)
(* a sequence of braces, members of an object ("m": a key with a scalar    *)
(* value and its separators) and words of prose ("w").                     *)
(***************************************************************************)
MaxTextLen == 5

TextAlphabet == {"{", "}", "m", "w"}

LLMTexts == SeqsUpTo(TextAlphabet, MaxTextLen)

\* the position of the "}" that closes the object opened at position i of s
\* when what stands between is members and objects only; 0 when there is
\* none
RECURSIVE ObjEnd(_, _)
RECURSIVE ItemsEnd(_, _)
ObjEnd(s, i) ==
    IF i <= Len(s) /\ s[i] = "{" THEN ItemsEnd(s, i + 1) ELSE 0

ItemsEnd(s, i) ==
    IF i > Len(s) THEN 0
    ELSE CASE s[i] = "}" -> i
           [] s[i] = "m" -> ItemsEnd(s, i + 1)
           [] s[i] = "{" -> IF ObjEnd(s, i) = 0 THEN 0
                            ELSE ItemsEnd(s, ObjEnd(s, i) + 1)
           [] OTHER -> 0

\* re.search(r'\{.*\}', s, re.DOTALL).group(0): from the first "{" to the
\* last "}" after it; NoMatch when there is no such pair
json_match(s) ==
    LET opens == { i \in DOMAIN s : s[i] = "{" }
        first == CHOOSE i \in opens : \A j \in opens : i <= j
        closes == { i \in DOMAIN s : s[i] = "}" /\ i > first }
        last == CHOOSE i \in closes : \A j \in closes : j <= i
    IN  IF opens = {} THEN NoMatch
        ELSE IF closes = {} THEN NoMatch
        ELSE SubSeq(s, first, last)

\* json.loads of a block: the object, or JSONDecodeError when the block is
\* not one object
json_loads(block) ==
    IF ObjEnd(block, 1) = Len(block) THEN [tag |-> "obj", text |-> block]
    ELSE [tag |-> "JSONDecodeError", text |-> <<>>]

NoObject == [tag |-> "none", text |-> <<>>]

\* the parse of extract_data_for_single_case: the decoded block, or None
\* for an empty text, a text without a block and a block that does not
\* decode
ParseResponse(llm_response_str) ==
    IF llm_response_str = <<>> THEN NoObject
    ELSE IF json_match(llm_response_str) = NoMatch THEN NoObject
    ELSE IF json_loads(json_match(llm_response_str)).tag = "obj"
         THEN json_loads(json_match(llm_response_str))
    ELSE NoObject

\* which of the contents of the worker's model a text is
KindOfText(llm_response_str) ==
    IF llm_response_str = <<>> THEN "empty"
    ELSE IF json_match(llm_response_str) = NoMatch THEN "no_braces"
    ELSE IF ParseResponse(llm_response_str).tag = "obj" THEN "object"
    ELSE "bad_json"

InitParse ==
    /\ PipeIdle
    /\ RagInit
    /\ IndexInit
    /\ u_out = NoCall
    /\ \E t \in LLMTexts : u_in = [op |-> "parse", text |-> t]

\* the worker on a segment with an ID, the LLM answering with the text: what
\* the parse gives and the status of the segment, the object taken to be a
\* valid record when it is not empty
ParseCall ==
    /\ u_in.op = "parse"
    /\ u_out = NoCall
    /\ LET parsed == ParseResponse(u_in.text)
           obj == IF parsed.text = <<"{", "}">> THEN EmptyObj ELSE Obj(Null, "full")
           resp == Resp("ok", "ok", Body(JText(KindOfText(u_in.text), obj)))
       IN  u_out' = [op |-> "parse",
                     parsed |-> parsed,
                     status |-> process_case_worker(Strip(TextA), resp, "ok", <<>>).status]
    /\ UNCHANGED <<u_in, pipeVars, ragVars, indexVars>>

NextParse == ParseCall

SpecParse == InitParse /\ [][NextParse]_vars

(***************************************************************************)
(* update_combined_file called once on a directory of records.             *)
(***************************************************************************)
MaxCombineFiles == 3

\* the names of record files: of the IDs 1/2566, 2/2567 and 10/2567, of
\* IDs after a prefix in either case, of IDs in Thai digits, and of an ID
\* that starts with a Thai digit and goes on in [0-9]
CombineNames ==
    { <<"1", "-", "2", "5", "6", "6">> \o DotJson,
      <<"2", "-", "2", "5", "6", "7">> \o DotJson,
      <<"1", "0", "-", "2", "5", "6", "7">> \o DotJson,
      <<"b", "2", "-", "2", "5", "6", "6">> \o DotJson,
      <<"B", "1", "0", "-", "2", "5", "6", "6">> \o DotJson,
      <<"TH2", "-", "TH2", "TH5", "TH6", "TH6">> \o DotJson,
      <<"TH1", "TH2", "-", "TH2", "TH5", "TH6", "TH6">> \o DotJson,
      <<"TH1", "2", "-", "2", "5", "6", "6">> \o DotJson }

\* each file holds the record of the ID it is named after
CombineDirs ==
    { [n \in D |-> ObjFile(Obj(Str(IdOfFilename(n)), "full"), "indent4", "worker")] :
        D \in { X \in SUBSET CombineNames : Cardinality(X) <= MaxCombineFiles } }

InitCombine ==
    /\ PipeIdle
    /\ RagInit
    /\ IndexInit
    /\ u_out = NoCall
    /\ \E d \in CombineDirs : u_in = [op |-> "combine", dir |-> d]

\* update_combined_file(output_dir): it raises or leaves the directory with
\* the artifact
CombineCall ==
    /\ u_in.op = "combine"
    /\ u_out = NoCall
    /\ u_out' = [op |-> "combine",
                 raised |-> CombineCrashes(u_in.dir),
                 dir |-> IF CombineCrashes(u_in.dir) THEN u_in.dir
                         ELSE Combined(u_in.dir)]
    /\ UNCHANGED <<u_in, pipeVars, ragVars, indexVars>>

NextCombine == CombineCall

SpecCombine == InitCombine /\ [][NextCombine]_vars

(***************************************************************************)
(* Properties of the extraction pipeline (Spec).                           *)
(***************************************************************************)
\* run_processing is running or has returned in a second run without
\* --force, on the corpus a first run of run_processing was given
SecondRunNoForce ==
    /\ run = 2
    /\ prev.processed
    /\ ~args.force
    /\ ~args.verify_only
    /\ pc \in {"run_processing", "pool", "call_repair"}

\* the second run wrote nothing, called the LLM for nothing and counted
\* nothing under success or failed
NothingRedone ==
    /\ files = snap
    /\ llm_calls = 0
    /\ futures = <<>>
    /\ counts.success = 0
    /\ counts.failed = 0

Persisted(dir) ==
    { n \in RecordFiles(dir) : dir[n].kind = "object" /\ dir[n].by \in {"worker", "repair"} }

\* [^\d]*\d+/\d{4} matched against the whole of x: a prefix without a digit,
\* digits, "/", four digits
RECURSIVE AllDigits(_)
AllDigits(x) == x = <<>> \/ (IsDigit(Head(x)) /\ AllDigits(Tail(x)))

RECURSIVE NoDigit(_)
NoDigit(x) == x = <<>> \/ (~IsDigit(Head(x)) /\ NoDigit(Tail(x)))

NonDigitPrefixDocket(x) ==
    \E k \in 0..Len(x), j \in 1..Len(x) :
        /\ k < j
        /\ j + 4 = Len(x)
        /\ NoDigit(SubSeq(x, 1, k))
        /\ AllDigits(SubSeq(x, k + 1, j - 1))
        /\ x[j] = "/"
        /\ AllDigits(SubSeq(x, j + 1, Len(x)))

\* .*?\d+/\d{4} matched against the whole of x, said without the code's
\* operator: some prefix free of line breaks, at least one digit, "/", four
\* digits
AnyPrefixDocket(x) ==
    \E k \in 0..Len(x), j \in 1..Len(x) :
        /\ k + 1 < j
        /\ j + 4 = Len(x)
        /\ \A m \in 1..k : x[m] # "\n"
        /\ AllDigits(SubSeq(x, k + 1, j - 1))
        /\ x[j] = "/"
        /\ AllDigits(SubSeq(x, j + 1, Len(x)))

RECURSIVE ToDispatch(_, _, _)
ToDispatch(segs, dir, force) ==
    IF segs = <<>> THEN <<>>
    ELSE LET t == Strip(Head(segs))
         IN  (IF /\ t # <<>>
                 /\ SearchCaseId(t) # NoMatch
                 /\ (force \/ OutputFilename(SearchCaseId(t)) \notin DOMAIN dir)
              THEN <<t>> ELSE <<>>)
             \o ToDispatch(Tail(segs), dir, force)

\* the filter of run_processing has run in the current run
FilterDone == pc = "pool" \/ (processed /\ env.input_dir)

Collected == { i \in DOMAIN futures : futures[i].st = "collected" }

CountedSum == counts.success + counts.failed + counts.skipped_no_id

\* the part of C4 on which statement and code agree: every collected worker
\* is counted once, all of them once the pool is drained, and success is
\* counted for exactly the workers that wrote their record file
OneOutcomeEach ==
    /\ CountedSum = Cardinality(Collected)
    /\ processed /\ futures # <<>> => Cardinality(Collected) = Len(cases_to_process)
    /\ counts.success = Cardinality({ i \in Collected : futures[i].status = "success" })
    /\ \A i \in DOMAIN futures : futures[i].status = "success" <=> futures[i].wrote

\* C4 as stated: every dispatched segment is counted under exactly one of
\* success, failed, skipped; success only if its record file was written;
\* failed only if extraction or validation failed
C4_AsStated ==
    (pc = "pool" \/ processed) =>
        /\ OneOutcomeEach
        /\ counts.failed =
              Cardinality({ i \in Collected : futures[i].why \in {"extraction", "validation"} })

\* C4, amended: every dispatched segment is counted under exactly one of
\* success, failed, skipped; success only if its record file was written;
\* failed only if extraction or validation failed or the worker raised an
\* exception (in the write of the file)
C4_OneOutcome ==
    (pc = "pool" \/ processed) =>
        /\ OneOutcomeEach
        /\ counts.failed =
              Cardinality({ i \in Collected :
                              futures[i].why \in {"extraction", "validation", "write"} })

\* the pool is drained with one worker that wrote its file and one whose
\* write raised
C4_Witness ==
    /\ processed
    /\ \E i \in Collected : futures[i].wrote
    /\ \E i \in Collected : futures[i].why = "write"
    /\ counts.success = 1
    /\ counts.failed = 1

\* C5: no worker's exception leaves run_processing; when a worker raised,
\* run_processing returns only after every submitted worker was collected,
\* with the raising ones counted once each under failed and the others
\* counted as they ended
C5_FailureIsolation ==
    /\ ~(pc = "crashed" /\ ~processed /\ ~args.verify_only)
    /\ (processed /\ \E i \in DOMAIN futures : futures[i].status = "exception") =>
          /\ \A i \in DOMAIN futures : futures[i].st = "collected"
          /\ Len(futures) = Len(cases_to_process)
          /\ counts.failed =
                Cardinality({ i \in DOMAIN futures :
                                futures[i].status \in {"exception", "failed"} })
          /\ counts.success =
                Cardinality({ i \in DOMAIN futures : futures[i].status = "success" })

\* run_processing has returned after one worker raised and another succeeded
C5_Witness ==
    /\ processed
    /\ pc = "call_repair"
    /\ \E i \in DOMAIN futures : futures[i].status = "exception"
    /\ \E i \in DOMAIN futures : futures[i].status = "success"

StoredValid(content) ==
    /\ content.obj.case_number.t = "str"
    /\ AnyPrefixDocket(content.obj.case_number.v)

\* the case number a record file is named after
IdNamed(n) == CHOOSE i \in KnownIds : OutputFilename(i) = n

\* the record files of a directory that decode to an object
Decodable(dir) == { n \in RecordFiles(dir) : dir[n].kind = "object" }

\* C7: when a pass has returned, every record file that held a matching
\* case_number is what it was before the pass and is counted valid; every
\* other decodable record file differs from what it was only in its
\* case_number, which is the identifier its name is the transform of, and is
\* counted repaired; no file was added or removed
C7_RepairFrame ==
    pc = "repair_done" =>
        /\ DOMAIN files = DOMAIN snap
        /\ \A n \in Decodable(snap) :
              IF StoredValid(snap[n]) THEN files[n] = snap[n]
              ELSE /\ files[n].kind = "object"
                   /\ files[n].obj.case_number = Str(IdNamed(n))
                   /\ files[n].obj.rest = snap[n].obj.rest
        /\ \A n \in DOMAIN snap \ Decodable(snap) : files[n] = snap[n]
        /\ valid_count = Cardinality({ n \in Decodable(snap) : StoredValid(snap[n]) })
        /\ repaired_count = Cardinality({ n \in Decodable(snap) : ~StoredValid(snap[n]) })

\* a first pass has returned having found one file valid and repaired another
C7_Witness ==
    /\ pc = "repair_done"
    /\ run = 1
    /\ valid_count = 1
    /\ repaired_count = 1

(***************************************************************************)
(* Properties of the memo generator (SpecRag).                             *)
(***************************************************************************)
\* the number of documents a retrieval returned: none unless it is a query
\* result with hits
HitCount(res) ==
    IF \E h \in Hits : res = QueryResult(h)
    THEN Len(CHOOSE h \in Hits : res = QueryResult(h))
    ELSE 0

\* C8: once retrieval has returned zero documents or nothing at all, the LLM
\* is not invoked for the query, and generate_memo ends by returning no memo
\* and no sources after the no-reference warning
C8_NoResultShortCircuit ==
    (rag_pc \notin {"Idle", "Retrieving"} /\ HitCount(search_results) = 0) =>
        /\ llm_invocations = 0
        /\ rag_pc \in {"Retrieved", "NoResults"}
        /\ rag_pc = "NoResults" =>
              /\ rag_ret = [memo |-> JNone, sources |-> <<>>]
              /\ "warning_no_reference" \in ui
              /\ "memo" \notin ui

\* a query on a collection that answered with an empty list of documents has
\* ended in NoResults
C8_Witness ==
    /\ rag_pc = "NoResults"
    /\ search_results = QueryResult(<<>>)
    /\ "warning_no_reference" \in ui

\* the failures of the LLM call C9 lists: no connection, an error status, a
\* body that is no JSON, and JSON without choices[0].message.content
ListedFailures ==
    { Resp("error", "ok", NotJson),
      Resp("ok", "error", NotJson),
      Resp("ok", "ok", NotJson),
      Resp("ok", "ok", JList(<<>>)),
      Resp("ok", "ok", JDict(<<>>)),
      Resp("ok", "ok", JDict([choices |-> JNone])),
      Resp("ok", "ok", JDict([choices |-> JList(<<>>)])),
      Resp("ok", "ok", JDict([choices |-> JList(<<JNum>>)])),
      Resp("ok", "ok", JDict([choices |-> JList(<<JDict([message |-> JNone])>>)])),
      Resp("ok", "ok", JDict([choices |-> JList(<<JDict(<<>>)>>)])),
      Resp("ok", "ok", Body(JNone)) }

\* C9 as stated: after any listed failure of the LLM call no exception
\* escapes, generate_memo returns no memo text, and the handler reports the
\* failure without showing a memo
C9_AsStated ==
    (llm_response \in ListedFailures /\ rag_pc \notin {"Idle", "Retrieving"}) =>
        /\ rag_pc # "Crashed"
        /\ "exception" \notin ui
        /\ ~TruthyVal(rag_ret.memo)
        /\ "memo" \notin ui
        /\ rag_pc # "Returned" => (rag_pc = "GenerationFailed" /\ "error_no_memo" \in ui)

(***************************************************************************)
(* Properties of the vector store (SpecIndex).                             *)
(***************************************************************************)
\* no id is held twice
OneEntryPerId(coll) ==
    \A j, k \in DOMAIN coll : coll[j].id = coll[k].id => j = k

\* every entry of before is an entry of after, with the same vector,
\* document and metadata
EntriesKept(before, after) ==
    /\ Len(before) <= Len(after)
    /\ \A k \in DOMAIN before : after[k] = before[k]

BatchIds(rows) == { rows[k].id : k \in DOMAIN rows }

\* C11 as stated: after an add_data call on a healthy store with a batch
\* whose ids include every stored id, repeated ids allowed, the store holds
\* exactly the ids of the batch and the entries it held are unchanged
C11_AsStated ==
    (/\ last_batch.lengths_equal
     /\ ~lookup_failed
     /\ store_mode = "lenient"
     /\ StoredIds(prev_store) \subseteq BatchIds(last_batch.rows)) =>
        /\ StoredIds(store) = BatchIds(last_batch.rows)
        /\ EntriesKept(prev_store, store)

(***************************************************************************)
(* Properties of one worker call (SpecWorker).                             *)
(***************************************************************************)
\* the call has returned
WorkerReturned == u_out.op = "worker"

\* the object the LLM answered with, when its answer held one
AnsweredObjects ==
    { o \in { Obj(c, r) : c \in WorkerCaseNumbers, r \in {"full", "opt_absent", "bad"} } :
        u_in.resp = Resp("ok", "ok", Body(JText("object", o))) }

\* the case_number of an answered object is missing, null, no string, or a
\* string that does not fully match the docket pattern
NeedsFallback(o) ==
    ~(o.case_number.t = "str" /\ AnyPrefixDocket(o.case_number.v))

\* C12: when the LLM's object carries a case_number that is null, no string
\* or does not match the docket pattern, and the rest of the record is
\* schema-valid, the worker does not return failed: it writes the record with
\* the segment's provisional ID as case_number and returns success, unless
\* the write of the file itself raises
C12_SelfHealing ==
    WorkerReturned =>
        \A o \in AnsweredObjects :
            (/\ SearchCaseId(u_in.text) # NoMatch
             /\ NeedsFallback(o)
             /\ o.rest \in {"full", "opt_absent"}) =>
                /\ u_out.out.status # "failed"
                /\ u_out.out.why \in {"", "write"}
                /\ u_out.out.why = "write" <=> u_in.io # "ok"
                /\ u_in.io = "ok" =>
                      /\ u_out.out.status = "success"
                      /\ \E n \in DOMAIN u_out.out.dir :
                            /\ u_out.out.dir[n].kind = "object"
                            /\ u_out.out.dir[n].obj.case_number
                                  = Str(SearchCaseId(u_in.text))
                            /\ u_out.out.dir[n].obj.rest = o.rest

\* a call answered with a null case_number has returned success
C12_Witness ==
    /\ WorkerReturned
    /\ u_out.out.status = "success"
    /\ \E o \in AnsweredObjects : o.case_number = Null

\* a file name without its .json suffix
Stem(n) == SubSeq(n, 1, Len(n) - Len(DotJson))

\* x with every "/" turned into "-"
RECURSIVE DashForSlash(_)
DashForSlash(x) ==
    IF x = <<>> THEN <<>>
    ELSE <<IF Head(x) = "/" THEN "-" ELSE Head(x)>> \o DashForSlash(Tail(x))

NoIdSegments ==
    { k \in DOMAIN corpus :
        /\ Strip(corpus[k]) # <<>>
        /\ ~\E j \in 1..Len(corpus[k]), m \in 1..Len(corpus[k]) :
               AnyPrefixDocket(SubSeq(corpus[k], j, m)) }

\* C14 as stated: when run_processing has returned, no segment without an ID
\* was sent to the LLM or produced a file, and each is counted once under
\* skipped_no_id and not under failed
C14_AsStated ==
    (processed /\ env.input_dir) =>
        /\ llm_calls <= Len(corpus) - Cardinality(NoIdSegments)
        /\ \A i \in DOMAIN cases_to_process : SearchCaseId(cases_to_process[i]) # NoMatch
        /\ counts.skipped_no_id = Cardinality(NoIdSegments)

(***************************************************************************)
(* Properties of one extraction call (SpecExtract).                        *)
(***************************************************************************)
\* the attempt met a connection error or a 429/500/502/503/504 response
Transient(outcome) ==
    outcome.kind = "conn_error" \/ outcome.code \in {429, 500, 502, 503, 504}

\* the attempt was answered 200 with a body that yields no JSON object
Unparseable(outcome) ==
    /\ outcome.code = 200
    /\ outcome.body # Body(JText("object", Obj(Null, "full")))

\* C15: one extraction makes at most 1 + 5 HTTP attempts; it is still
\* sending after an attempt only if that attempt met a connection error or a
\* 429/500/502/503/504 response; it gives up on such an attempt only at the
\* ceiling, and the segment then ends failed; a 200 response that yields no
\* JSON object ends the call at once, the segment ends failed after exactly
\* one LLM call
C15_BoundedRetry ==
    u_out.op = "extract" =>
        /\ u_out.attempts <= 1 + 5
        /\ (u_out.phase = "sending" /\ u_out.attempts > 0) => Transient(u_out.last)
        /\ (u_out.phase # "sending" /\ Transient(u_out.last)) => u_out.attempts = 1 + 5
        /\ (u_out.phase = "returned" /\ Transient(u_out.last)) => u_out.status = "failed"
        /\ Unparseable(u_out.last) => u_out.phase # "sending"
        /\ (u_out.phase = "returned" /\ Unparseable(u_out.last)) =>
              (u_out.status = "failed" /\ u_out.calls = 1)

\* an extraction has failed at the ceiling of six attempts
C15_Witness ==
    /\ u_out.op = "extract"
    /\ u_out.phase = "returned"
    /\ u_out.attempts = 6
    /\ Transient(u_out.last)
    /\ u_out.status = "failed"

(***************************************************************************)
(* Further properties of the verification pass (SpecRepair).               *)
(***************************************************************************)
\* the record files of a directory that cannot be read or decoded: no JSON,
\* empty, no permission, or bytes that are no UTF-8
Undecodable(dir) ==
    { n \in RecordFiles(dir) : dir[n].kind \in {"garbage", "empty", "unreadable", "badutf8"} }

\* C16 as stated: on a directory whose record files are records or cannot be
\* read or decoded, the pass does not stop at a bad file: it returns, every
\* record was checked and counted, and every bad file is what it was and is
\* counted neither valid nor repaired
C16_AsStated ==
    (RecordFiles(snap) = Decodable(snap) \cup Undecodable(snap)) =>
        /\ pc # "crashed"
        /\ pc = "repair_done" =>
              /\ \A n \in Undecodable(snap) : files[n] = snap[n]
              /\ valid_count + repaired_count = Cardinality(Decodable(snap))


(***************************************************************************)
(* Properties of update_combined_file (SpecRepair).                        *)
(***************************************************************************)
\* the record files of a directory that are not empty and decode
Loadable(dir) ==
    { n \in RecordFiles(dir) : dir[n].kind \in {"object", "nonobject"} }

\* items lists the decoded contents of the files S of dir, each once
ListsExactly(items, dir, S) ==
    /\ Len(items) = Cardinality(S)
    /\ \E f \in [1..Len(items) -> S] :
          /\ \A n \in S : \E k \in 1..Len(items) : f[k] = n
          /\ \A k \in 1..Len(items) :
                items[k] = [kind |-> dir[f[k]].kind, obj |-> dir[f[k]].obj]

\* C17: when update_combined_file has run over a directory holding a record
\* file that is not empty and decodes, the consolidated artifact is a list of
\* the decoded contents of exactly the record files now in the directory
\* that are not empty and decode; nothing of an earlier artifact is in it
\* unless it is the content of such a file
C17_CombineFromScratch ==
    (pc = "done" /\ Loadable(files) # {}) =>
        /\ combined_filename_leaf \in DOMAIN files
        /\ files[combined_filename_leaf].kind = "array"
        /\ ListsExactly(files[combined_filename_leaf].items, files, Loadable(files))

\* the combiner has run over a directory that held the artifact of an
\* earlier run, with an element whose record file is gone, and a decodable
\* record file
C17_Witness ==
    /\ pc = "done"
    /\ Loadable(files) # {}
    /\ combined_filename_leaf \in DOMAIN snap
    /\ StaleCase \in { snap[combined_filename_leaf].items[k] :
                          k \in DOMAIN snap[combined_filename_leaf].items }
    /\ files[combined_filename_leaf].by = "combine"

\* C18: when update_combined_file has run over a directory where no record
\* file is both non-empty and decodable, the directory is what it was: an
\* artifact written earlier keeps its content and none is created when there
\* was none
C18_NoClobbering ==
    (pc = "done" /\ Loadable(snap) = {}) =>
        /\ DOMAIN files = DOMAIN snap
        /\ combined_filename_leaf \in DOMAIN snap =>
              files[combined_filename_leaf] = snap[combined_filename_leaf]

\* the combiner has run over a directory that held an earlier artifact and
\* record files, none of them loadable
C18_Witness ==
    /\ pc = "done"
    /\ RecordFiles(snap) # {}
    /\ Loadable(snap) = {}
    /\ combined_filename_leaf \in DOMAIN snap
    /\ files[combined_filename_leaf].items = <<StaleCase>>

\* the combiner has run over a directory with record files, none of them
\* loadable, and no artifact
C18_WitnessNone ==
    /\ pc = "done"
    /\ RecordFiles(snap) # {}
    /\ Loadable(snap) = {}
    /\ combined_filename_leaf \notin DOMAIN files

(***************************************************************************)
(* Properties of the order of the consolidated artifact (SpecCombine).     *)
(***************************************************************************)
\* length of the longest prefix of s whose characters are all digits (d) or
\* all no digits (~d)
RECURSIVE RunLen(_, _)
RunLen(s, d) ==
    IF s # <<>> /\ (IsDigit(Head(s)) <=> d) THEN 1 + RunLen(Tail(s), d) ELSE 0

\* identifier a stands before identifier b in the natural order: run by run,
\* a run of digits compared as an integer and any other run without regard
\* to case; an identifier that ends first, or has digits where the other
\* has none, stands first
RECURSIVE NaturalBefore(_, _)
NaturalBefore(a, b) ==
    IF a = <<>> \/ b = <<>> THEN a = <<>> /\ b # <<>>
    ELSE IF IsDigit(Head(a)) # IsDigit(Head(b)) THEN IsDigit(Head(a))
    ELSE LET d == IsDigit(Head(a))
             ra == SubSeq(a, 1, RunLen(a, d))
             rb == SubSeq(b, 1, RunLen(b, d))
             same == IF d THEN IntOf(ra) = IntOf(rb) ELSE Lower(ra) = Lower(rb)
         IN  IF same THEN NaturalBefore(SubSeq(a, Len(ra) + 1, Len(a)),
                                        SubSeq(b, Len(rb) + 1, Len(b)))
             ELSE IF d THEN IntOf(ra) < IntOf(rb)
             ELSE StrLess(Lower(ra), Lower(rb))

\* the identifiers of the records of the artifact of dir, in its order
ArtifactIds(dir) ==
    [k \in DOMAIN dir[combined_filename_leaf].items |->
        dir[combined_filename_leaf].items[k].obj.case_number.v]

\* no identifier of the list stands after one it is before in the natural
\* order
NaturallySorted(ids) ==
    \A i, j \in DOMAIN ids : i < j => ~NaturalBefore(ids[j], ids[i])

\* the call has returned or raised
CombineCalled == u_in.op = "combine" /\ u_out # NoCall

\* C19 as stated: for every set of record files the call compares every two
\* names without an error, and the artifact lists every record, in the
\* natural order of the identifiers
C19_AsStated ==
    (CombineCalled /\ u_in.dir # <<>>) =>
        /\ ~u_out.raised
        /\ Len(ArtifactIds(u_out.dir)) = Cardinality(DOMAIN u_in.dir)
        /\ NaturallySorted(ArtifactIds(u_out.dir))

\* a name of the directory holds a digit outside [0-9]
HasOtherDigit(dir) ==
    \E n \in DOMAIN dir : \E k \in DOMAIN n : n[k] \in ThaiDigits

\* the same on the directories whose names hold no digit outside [0-9]
AsciiNaturalSort ==
    (CombineCalled /\ u_in.dir # <<>> /\ ~HasOtherDigit(u_in.dir)) =>
        /\ ~u_out.raised
        /\ Len(ArtifactIds(u_out.dir)) = Cardinality(DOMAIN u_in.dir)
        /\ NaturallySorted(ArtifactIds(u_out.dir))

\* the names that hold digits outside [0-9] are compared without an error
\* when no piece between two runs of [0-9] is made of such digits alone
OtherDigitsAsText ==
    (CombineCalled /\ u_out.raised) =>
        \E n \in DOMAIN u_in.dir : n[1] \in ThaiDigits /\ IsAsciiDigit(n[2])

(***************************************************************************)
(* Properties of the context and the sources (SpecRag).                    *)
(***************************************************************************)
\* the documents and the metadatas of the current result, in retrieval order
Retrieved(res) ==
    [docs |-> res.f["documents"].items[1].items,
     metas |-> res.f["metadatas"].items[1].items]

\* the tag of a metadata: its case number, 'N/A' when it has none
TagOf(meta) == IF meta = "no_case_number" THEN "N/A" ELSE meta

\* C20: when retrieval returned n >= 1 documents, the context holds n
\* entries labelled 1..n, the i-th with the i-th document and the case
\* number of the i-th metadata; when generate_memo has returned, the source
\* list holds n excerpts, the i-th of the i-th document, tagged with the
\* case number of the i-th metadata and of at most 250 characters of it
C20_TraceableSources ==
    (HitCount(search_results) >= 1) =>
        LET r == Retrieved(search_results)
            n == Len(r.docs)
        IN  /\ rag_pc \in {"ContextBuilt", "Generating", "Returned",
                           "MemoAvailable", "GenerationFailed", "Crashed"} =>
                  /\ Len(context_str) = n
                  /\ \A i \in 1..n :
                        /\ context_str[i].label = i
                        /\ context_str[i].doc = r.docs[i]
                        /\ context_str[i].case_num = TagOf(r.metas[i])
            /\ rag_pc \in {"Returned", "MemoAvailable", "GenerationFailed"} =>
                  /\ Len(rag_ret.sources) = n
                  /\ \A i \in 1..n :
                        /\ rag_ret.sources[i].case_num = TagOf(r.metas[i])
                        /\ rag_ret.sources[i].excerpt.text = r.docs[i].text
                        /\ rag_ret.sources[i].excerpt.len <= PreviewLen
                        /\ rag_ret.sources[i].excerpt.len <= r.docs[i].len

\* generate_memo has returned on two retrieved documents with different
\* metadata, the second longer than the preview
C20_Witness ==
    /\ rag_pc = "Returned"
    /\ HitCount(search_results) = 2
    /\ Retrieved(search_results).metas[1] # Retrieved(search_results).metas[2]
    /\ Retrieved(search_results).docs[2].len > PreviewLen
    /\ Len(rag_ret.sources) = 2

(***************************************************************************)
(* Properties of the steps of a query (SpecRag).                           *)
(***************************************************************************)
\* the steps of the machine: Retrieved is Retrieving with the search back,
\* Returned is Generating with generate_memo back in the handler
MachineEdges ==
    { <<"Idle", "Idle">>, <<"Idle", "Retrieving">>,
      <<"NoResults", "Idle">>, <<"NoResults", "Retrieving">>,
      <<"MemoAvailable", "Idle">>, <<"MemoAvailable", "Retrieving">>,
      <<"GenerationFailed", "Idle">>, <<"GenerationFailed", "Retrieving">>,
      <<"Retrieving", "Retrieved">>,
      <<"Retrieved", "NoResults">>, <<"Retrieved", "ContextBuilt">>,
      <<"ContextBuilt", "Generating">>,
      <<"Generating", "Returned">>,
      <<"Returned", "MemoAvailable">>, <<"Returned", "GenerationFailed">> }

\* a call left by an exception, and the next click after it
CrashEdges ==
    { <<"Generating", "Crashed">>, <<"Crashed", "Idle">>, <<"Crashed", "Retrieving">> }

\* every step of a query is a step of the machine, or the call is left by
\* an exception
StepOfMachineOrCrash == <<rag_pc, rag_pc'>> \in MachineEdges \cup CrashEdges

StepsOfMachineOrCrash == [][StepOfMachineOrCrash]_vars

\* retrieval is over before the context is built, the context is built
\* before the LLM is called, and the LLM is called at most once for a query
RagOrder ==
    /\ llm_invocations <= 1
    /\ context_str # <<>> => HitCount(search_results) >= 1
    /\ llm_invocations = 1 => context_str # <<>>
    /\ rag_pc \in {"Generating", "Returned", "MemoAvailable", "GenerationFailed",
                   "Crashed"} <=> llm_invocations = 1

\* C21 as stated: a query is in no other state than those of the machine, so
\* that a call that has reached Generating ends in MemoAvailable or
\* GenerationFailed; retrieval, context and LLM call come in this order and
\* the LLM is called at most once
C21_AsStated ==
    /\ rag_pc \in { e[1] : e \in MachineEdges }
    /\ RagOrder

(***************************************************************************)
(* Properties of the passes of main (Spec).                                *)
(***************************************************************************)
\* the current run is an extraction run that met a setup-time error
SetupError ==
    /\ run >= 1
    /\ ~args.verify_only
    /\ ~env.key \/ ~env.input_dir

\* a pass after run_processing has started or main has ended normally
LaterPass == pc \in {"call_repair", "repairing", "repair_done", "done"}

\* a segment of the current run has failed
ItemFailed ==
    \E i \in DOMAIN futures :
        futures[i].st # "submitted" /\ futures[i].status \in {"failed", "exception"}

\* the directory the run started on holds nothing the repair pass or the
\* combiner stops at
NoCrashingFile ==
    \A n \in RecordFiles(snap) : snap[n].kind \notin {"nonobject", "array", "badutf8"}

\* a failed segment stops neither the run nor the process: the run does not
\* crash and does not exit with a status other than 0
PerItemNoAbort ==
    (ItemFailed /\ NoCrashingFile) => pc \notin {"crashed", "exit"}

\* without credentials the run exits before any pass
NoKeyAborts == (run >= 1 /\ ~args.verify_only /\ ~env.key) => ~LaterPass

\* C22 as stated: after a setup-time error (no credentials, no input
\* directory) no later pass runs, and a failed segment never stops the run
C22_AsStated ==
    /\ SetupError => ~LaterPass
    /\ PerItemNoAbort

\* the current run was started with --verify-only
VerifyOnlyRun == run >= 1 /\ args.verify_only

\* C23: in a run with --verify-only, with or without credentials,
\* extraction never starts: no LLM call, no worker, no record file that was
\* not there, no exit for want of a key; and when the repair pass has
\* returned it has checked every decodable record file that was there
C23_VerifyOnly ==
    VerifyOnlyRun =>
        /\ pc \notin {"run_processing", "pool", "exit"}
        /\ llm_calls = 0
        /\ futures = <<>>
        /\ RecordFiles(files) = RecordFiles(snap)
        /\ pc \in {"repair_done", "done"} =>
              valid_count + repaired_count = Cardinality(Decodable(snap))

\* a run with --verify-only and no credentials has repaired a record file
C23_Witness ==
    /\ VerifyOnlyRun
    /\ ~env.key
    /\ pc = "repair_done"
    /\ repaired_count = 1

(***************************************************************************)
(* Properties of the LLM call of the memo generator (SpecRag).             *)
(***************************************************************************)
\* the requests get_completion has sent for the current query: one
\* requests.post for each call, no session and no retry adapter
MemoRequestsSent == llm_invocations

\* the answer was a transport failure: no connection or an error status
TransportFailed(resp) == resp.net = "error" \/ resp.status = "error"

\* C24 as stated, at the memo generator: a transport failure is surfaced as
\* the failure of the call only after the request was sent again
C24_AsStated ==
    (rag_pc \in {"Returned", "GenerationFailed"} /\ TransportFailed(llm_response)) =>
        MemoRequestsSent >= 2

(***************************************************************************)
(* Properties of the parse of the LLM's text (SpecParse).                  *)
(***************************************************************************)
\* the first complete, balanced object of a text: the one that starts at the
\* first "{" that has its "}", and ends there
FirstCompleteObject(text) ==
    LET opens == { i \in DOMAIN text : ObjEnd(text, i) # 0 }
        first == CHOOSE i \in opens : \A j \in opens : i <= j
    IN  IF opens = {} THEN NoObject
        ELSE [tag |-> "obj", text |-> SubSeq(text, first, ObjEnd(text, first))]

ParseCalled == u_in.op = "parse" /\ u_out # NoCall

\* C25 as stated: the parse gives the first complete, balanced object of the
\* text, whatever follows it; with no such object it gives nothing and the
\* segment is failed
C25_AsStated ==
    ParseCalled =>
        /\ u_out.parsed = FirstCompleteObject(u_in.text)
        /\ u_out.parsed = NoObject => u_out.status = "failed"

\* what the parse does: it decodes the text from the first "{" to the last
\* "}", and gives nothing when that is not one object; a segment without a
\* parsed object is failed
GreedyParse ==
    ParseCalled =>
        /\ u_out.parsed.tag = "obj" <=>
              /\ json_match(u_in.text) # NoMatch
              /\ ObjEnd(json_match(u_in.text), 1) = Len(json_match(u_in.text))
        /\ u_out.parsed.tag = "obj" => u_out.parsed = FirstCompleteObject(u_in.text)
        /\ u_out.parsed = NoObject => u_out.status = "failed"

(***************************************************************************)
(* Properties of the memo that is returned (SpecRag).                      *)
(***************************************************************************)
\* of the two documents of the model, doc2 is the text of a provision and
\* doc1 the text of a judgment that quotes none
HoldsStatute(doc) == doc.text = "doc2"

\* no entry of the context holds the text of a provision
ContextWithoutStatute ==
    /\ context_str # <<>>
    /\ \A k \in DOMAIN context_str : ~HoldsStatute(context_str[k].doc)

\* C26 as stated: the memo generate_memo returns for a context without the
\* text of a provision cites no provision that the context does not hold
C26_AsStated ==
    (rag_pc \in {"Returned", "MemoAvailable"} /\ ContextWithoutStatute
        /\ rag_ret.memo.t = "str") =>
        rag_ret.memo.kind # "memo_ungrounded"

\* the memo that is returned and shown is the text the LLM answered with
MemoRelayed ==
    (rag_pc \in {"Returned", "MemoAvailable"} /\ TruthyVal(rag_ret.memo)) =>
        rag_ret.memo = ContentOf(llm_response.body).val

(***************************************************************************)
(* Properties of the order of the passes (Spec).                           *)
(***************************************************************************)
\* the repair pass or the combiner is at work or over
AfterPool == pc \in {"call_repair", "repairing", "repair_done", "done"}

\* a worker of the pool ends in this step
WorkerEnds ==
    \E i \in DOMAIN futures :
        /\ i \in DOMAIN futures'
        /\ futures[i].st = "submitted"
        /\ futures'[i].st = "finished"

\* the consolidated artifact is written in this step
ArtifactWritten ==
    /\ combined_filename_leaf \in DOMAIN files'
    /\ combined_filename_leaf \in DOMAIN files =>
          files'[combined_filename_leaf] # files[combined_filename_leaf]

\* one step in the order of the passes: a worker ends only while the pool is
\* open; the repair pass and the combiner are entered only with every
\* submitted worker finished and collected; the repair pass checks files
\* only between its start and its return; the artifact is written only when
\* the repair pass has returned with no file left to check
PassOrderStep ==
    /\ WorkerEnds => (pc = "pool" /\ pc' = "pool")
    /\ AfterPool' => \A i \in DOMAIN futures' : futures'[i].st = "collected"
    /\ (run' = run /\ files_to_check' # files_to_check) =>
          pc \in {"call_repair", "repairing"}
    /\ ArtifactWritten => (pc = "repair_done" /\ files_to_check = {})

\* C27: in every run the repair pass starts only after every worker of the
\* run has finished and the combiner only after the repair pass has
\* returned, so no worker writes while either of them reads the directory
C27_PassOrdering == [][PassOrderStep]_vars

\* the repair pass is at work after a pool of two workers, one of which
\* wrote a record file
C27_Witness ==
    /\ pc = "repairing"
    /\ ~args.verify_only
    /\ Len(futures) = 2
    /\ \E i \in DOMAIN futures : futures[i].wrote

(***************************************************************************)
(* Properties of the workers of one run (SpecPool).                        *)
(***************************************************************************)
\* the file a dispatched segment is written to
FileOfTask(i) == OutputFilename(SearchCaseId(cases_to_process[i]))

\* the record files the workers of the run have written
WrittenInRun == { FileOfTask(i) : i \in { j \in DOMAIN futures : futures[j].wrote } }

\* the tasks are dispatched
Dispatched == pc \in {"pool", "call_repair", "repairing", "repair_done", "done"}
                 /\ futures # <<>>

\* C28 as stated: two different segments dispatched in one run are written
\* to different files, and when the pool is drained the workers have written
\* as many record files as the run counts successes
C28_AsStated ==
    Dispatched =>
        /\ \A i, j \in DOMAIN cases_to_process :
              cases_to_process[i] # cases_to_process[j] => FileOfTask(i) # FileOfTask(j)
        /\ pc = "call_repair" => Cardinality(WrittenInRun) = counts.success

\* segments whose first IDs differ are written to different files, and
\* when all the first IDs of a run differ the files written are as many as
\* the successes
DistinctIdsDistinctFiles ==
    Dispatched =>
        /\ \A i, j \in DOMAIN cases_to_process :
              SearchCaseId(cases_to_process[i]) # SearchCaseId(cases_to_process[j])
                  => FileOfTask(i) # FileOfTask(j)
        /\ (/\ pc = "call_repair"
            /\ \A i, j \in DOMAIN cases_to_process :
                  i # j => SearchCaseId(cases_to_process[i]) # SearchCaseId(cases_to_process[j]))
              => Cardinality(WrittenInRun) = counts.success

\* two segments of one run were written to the same file, the second answer
\* over the first
SameFileTwice ==
    /\ pc = "call_repair"
    /\ Len(futures) = 2
    /\ cases_to_process[1] # cases_to_process[2]
    /\ futures[1].wrote /\ futures[2].wrote
    /\ counts.success = 2
    /\ Cardinality(RecordFiles(files)) = 1

\* the counter a worker's outcome goes to: an exception of the worker is
\* counted as failed
CounterOf(status) == IF status = "exception" THEN "failed" ELSE status

\* the collected futures of the run whose outcome goes to counter s
Tally(s) ==
    Cardinality({ i \in DOMAIN futures :
                    futures[i].st = "collected" /\ CounterOf(futures[i].status) = s })

\* C29: whatever the order in which the workers end and are collected, each
\* counter is the number of collected outcomes of its kind: no update is
\* lost, and the final counts depend on the outcomes only
C29_OrderIndependent ==
    (pc \in {"pool", "call_repair"} /\ futures # <<>>) =>
        \A s \in DOMAIN counts : counts[s] = Tally(s)

\* the second worker of a run has ended and was counted failed before the
\* first has ended
C29_Witness ==
    /\ pc = "pool"
    /\ Len(futures) = 2
    /\ futures[1].st = "submitted"
    /\ futures[2].st = "collected"
    /\ counts.failed = 1

(***************************************************************************)
(* Properties of a failed segment (Spec).                                  *)
(***************************************************************************)
\* worker i ends in this step with a failed extraction, parse or validation
FailsInStep(i) ==
    /\ i \in DOMAIN futures'
    /\ futures[i].st = "submitted"
    /\ futures'[i].st = "finished"
    /\ futures'[i].why \in {"extraction", "validation"}

FailedStepKeepsFiles ==
    \A i \in DOMAIN futures :
        FailsInStep(i) =>
            /\ files' = files
            /\ CounterOf(futures'[i].status) = "failed"

\* C30: a worker whose extraction, parse or validation fails goes to the
\* failed count and leaves every file of the output directory as it was,
\* the record file of the same ID included
C30_FailureLeavesFiles == [][FailedStepKeepsFiles]_vars

\* under --force a worker has failed the validation of a segment whose
\* record file was there before the run, and the file is what it was
C30_Witness ==
    /\ pc = "pool"
    /\ args.force
    /\ \E i \in DOMAIN futures :
          /\ futures[i].st = "finished"
          /\ futures[i].why = "validation"
          /\ FileOfTask(i) \in DOMAIN snap
          /\ files[FileOfTask(i)] = snap[FileOfTask(i)]

(***************************************************************************)
(* The verification pass on any content of the directory (SpecRepair).     *)
(***************************************************************************)
\* the record files of a directory whose JSON decodes to a value that is no
\* object, or whose bytes are no UTF-8
NoObjectOrNoText(dir) ==
    { n \in RecordFiles(dir) : dir[n].kind \in {"nonobject", "array", "badutf8"} }

\* C33 as stated: whatever the directory holds, the pass completes: a record
\* file that decodes to a non-object value or is no UTF-8 does not end the
\* run, and once the pass has returned such a file is what it was and is
\* counted neither valid nor repaired
C33_AsStated ==
    /\ pc # "crashed"
    /\ pc = "repair_done" =>
          /\ \A n \in NoObjectOrNoText(snap) : files[n] = snap[n]
          /\ valid_count + repaired_count <=
                Cardinality(RecordFiles(snap) \ NoObjectOrNoText(snap))

\* what does hold: such a file is never written by the pass
NoObjectLeftUnchanged ==
    \A n \in NoObjectOrNoText(snap) : n \in DOMAIN files /\ files[n] = snap[n]

\* what does hold: the pass returns with its counts if and only if no such
\* file was met; the run that meets one ends there and the combiner is not
\* called in it
CrashOnlyOnNoObject ==
    /\ pc = "crashed" => NoObjectOrNoText(snap) # {}
    /\ pc \in {"repair_done", "done"} => NoObjectOrNoText(snap) = {}

\* a run has ended at a non-object record file while another file was
\* still to be checked
RepairAborted ==
    /\ pc = "crashed"
    /\ files_to_check # {}
    /\ \E n \in RecordFiles(snap) : snap[n].kind = "nonobject"

(***************************************************************************)
(* embedder_bge_m3.py: main called once on the directory processed_cases   *)
(* as the extraction pipeline or an operator left it.                      *)
(***************************************************************************)
MaxEmbedFiles == 2

\* LegalCase.model_validate of embedder_bge_m3.py: the same fields, but the
\* five text fields are declared "str | None" with no default, so each is
\* required: it may be null, it may not be left out
EmbedderLegalCaseValid(obj) ==
    /\ obj.case_number.t = "str"
    /\ obj.rest = "full"

\* an element of the artifact that is itself a list
Nested(items) == [kind |-> "list", obj |-> EmptyObj, items |-> items]

\* record files of a directory the repair pass has returned on: what a
\* worker persists for the ID of the file name (every field present, or an
\* optional text field left out) and a record from elsewhere that lacks a
\* required field
EmbedRecords(name) ==
    { ObjFile(Obj(Str(IdOfFilename(name)), "full"), "indent4", "worker"),
      ObjFile(Obj(Str(IdOfFilename(name)), "opt_absent"), "indent4", "worker"),
      ObjFile(Obj(Str(IdOfFilename(name)), "bad"), "other", "env") }

\* the directories main of qctext.py leaves: update_combined_file has run
CombinedDirs ==
    { Combined(d) :
        d \in UNION { { f \in [D -> UNION { EmbedRecords(n) : n \in D }] :
                          \A n \in D : f[n] \in EmbedRecords(n) } :
                      D \in { X \in SUBSET RepairNames :
                                 Cardinality(X) <= MaxEmbedFiles } } }

FullRecord == [kind |-> "object", obj |-> Obj(Str(<<"1", "/", "2", "5", "6", "6">>), "full")]

OtherRecord == [kind |-> "object", obj |-> Obj(Str(<<"2", "/", "2", "5", "6", "7">>), "full")]

NoRecord == [kind |-> "nonobject", obj |-> EmptyObj]

EmptyDict == [kind |-> "object", obj |-> EmptyObj]

\* artifacts an operator or another tool left: no JSON, a JSON object, an
\* empty list, a list holding a value that is no object, and lists that
\* hold lists
ForeignArtifacts ==
    { RawFile("garbage", "env"),
      ObjFile(FullRecord.obj, "other", "env"),
      ArrayFile(<<>>, "env"),
      ArrayFile(<<FullRecord, NoRecord>>, "env"),
      ArrayFile(<<Nested(<<FullRecord>>), EmptyDict>>, "env"),
      ArrayFile(<<Nested(<<FullRecord>>), Nested(<<OtherRecord>>)>>, "env"),
      ArrayFile(<<Nested(<<FullRecord, OtherRecord>>), Nested(<<>>)>>, "env"),
      ArrayFile(<<Nested(<<FullRecord>>), OtherRecord>>, "env"),
      ArrayFile(<<FullRecord, Nested(<<OtherRecord>>)>>, "env"),
      ArrayFile(<<Nested(<<FullRecord, NoRecord>>)>>, "env"),
      ArrayFile(<<Nested(<<Nested(<<FullRecord>>)>>)>>, "env") }

EmbedDirs ==
    CombinedDirs
    \cup { WriteFile(<<>>, combined_filename_leaf, a) : a \in ForeignArtifacts }

\* [case for sublist in data for case in sublist]: the elements of the
\* sublists in order; an element of data that is no list is iterated as
\* what it is: the empty dict gives nothing, another dict its keys and a
\* string its characters (no record), a number raises TypeError (as good as
\* a rejected case: the loader returns [] on either)
RECURSIVE Flatten(_)
Flatten(data) ==
    IF data = <<>> THEN <<>>
    ELSE (IF Head(data).kind = "list" THEN Head(data).items
          ELSE IF Head(data) = EmptyDict THEN <<>>
          ELSE <<NoRecord>>)
         \o Flatten(Tail(data))

\* case_list of load_and_validate_cases for decoded data that is a list
CaseList(data) ==
    IF Len(data) > 0 /\ data[1].kind = "list" THEN Flatten(data) ELSE data

\* LegalCase.model_validate(case) succeeds
CaseAccepted(case) ==
    case.kind = "object" /\ EmbedderLegalCaseValid(case.obj)

\* a loader that leaves out the records it rejects
load_and_validate_cases_SkipInvalid(dir) ==
    IF combined_filename_leaf \notin DOMAIN dir THEN <<>>
    ELSE LET art == dir[combined_filename_leaf]
         IN  IF art.kind # "array" THEN <<>>
             ELSE SelectSeq(CaseList(art.items), CaseAccepted)

\* load_and_validate_cases(filepath): the validated cases, or [] when the
\* file is missing, does not decode, is no list, or any case is rejected
\* (FileNotFoundError, ValidationError and Exception all return [])
load_and_validate_cases(dir) ==
    IF combined_filename_leaf \notin DOMAIN dir THEN <<>>
    ELSE LET art == dir[combined_filename_leaf]
         IN  IF art.kind # "array" THEN <<>>
             ELSE IF \A k \in DOMAIN CaseList(art.items) :
                        CaseAccepted(CaseList(art.items)[k])
                  THEN CaseList(art.items)
                  ELSE <<>>

NoBundle == [written |-> FALSE, case_numbers |-> <<>>]

\* main of the embedder: no CUDA device returns before the load; an empty
\* load returns; a model that does not load returns; else the bundle is
\* pickled with the case numbers in the order loaded
EmbedderMain(dir, cuda, model_loads) ==
    IF ~cuda THEN [op |-> "embed", called |-> FALSE, legal_cases |-> <<>>, bundle |-> NoBundle]
    ELSE LET legal_cases == load_and_validate_cases(dir)
         IN  [op |-> "embed", called |-> TRUE, legal_cases |-> legal_cases,
              bundle |-> IF legal_cases = <<>> \/ ~model_loads THEN NoBundle
                         ELSE [written |-> TRUE,
                               case_numbers |-> [k \in DOMAIN legal_cases |->
                                                   legal_cases[k].obj.case_number.v]]]

InitEmbed ==
    /\ PipeIdle
    /\ RagInit
    /\ IndexInit
    /\ u_out = NoCall
    /\ \E d \in EmbedDirs, cuda \in BOOLEAN, model_loads \in BOOLEAN :
          u_in = [op |-> "embed", dir |-> d, cuda |-> cuda, model_loads |-> model_loads]

EmbedCall ==
    /\ u_in.op = "embed"
    /\ u_out = NoCall
    /\ u_out' = EmbedderMain(u_in.dir, u_in.cuda, u_in.model_loads)
    /\ UNCHANGED <<u_in, pipeVars, ragVars, indexVars>>

NextEmbed == EmbedCall

SpecEmbed == InitEmbed /\ [][NextEmbed]_vars

(***************************************************************************)
(* Properties of the embedding stage's loader (SpecEmbed).                 *)
(***************************************************************************)
\* the directory holds record files, each persisted by a worker after the
\* extraction stage's validation accepted it
ExtractedOnly(dir) ==
    /\ RecordFiles(dir) # {}
    /\ \A n \in RecordFiles(dir) :
          /\ dir[n].kind = "object"
          /\ dir[n].by = "worker"
          /\ LegalCaseValid(dir[n].obj)

LoaderCalled == u_out.op = "embed" /\ u_out.called

\* C31 as stated: an artifact built only from records the extraction stage
\* validated and persisted always loads, every record of it, a record with
\* an optional text field left out included
C31_AsStated ==
    (LoaderCalled /\ ExtractedOnly(u_in.dir)) =>
        Len(u_out.legal_cases) = Cardinality(RecordFiles(u_in.dir))

\* what does hold: the two validators agree on every record that has all
\* its optional text fields, null or not
AgreeWhenFieldsPresent ==
    LoaderCalled =>
        \A n \in RecordFiles(u_in.dir) :
            u_in.dir[n].obj.rest # "opt_absent" =>
                (LegalCaseValid(u_in.dir[n].obj) <=> EmbedderLegalCaseValid(u_in.dir[n].obj))

\* what does hold: an artifact of extracted records fails to load only with
\* a record that leaves an optional text field out
RejectedOnlyForAbsentField ==
    (LoaderCalled /\ ExtractedOnly(u_in.dir) /\ u_out.legal_cases = <<>>) =>
        \E n \in RecordFiles(u_in.dir) : u_in.dir[n].obj.rest = "opt_absent"

\* the loader has returned [] on an artifact of two extracted records
ExtractedNotLoaded ==
    /\ LoaderCalled
    /\ ExtractedOnly(u_in.dir)
    /\ Cardinality(RecordFiles(u_in.dir)) = 2
    /\ u_out.legal_cases = <<>>

\* the records the artifact holds, in its order
ArtifactRecords(dir) ==
    IF combined_filename_leaf \in DOMAIN dir /\ dir[combined_filename_leaf].kind = "array"
    THEN CaseList(dir[combined_filename_leaf].items)
    ELSE <<>>

\* C32: the loader returns every record of the artifact in the artifact's
\* order, or the empty list; with one rejected record it returns the empty
\* list; and on an empty list the stage ends without writing the bundle
C32_AllOrNothing ==
    LoaderCalled =>
        /\ u_out.legal_cases \in {<<>>, ArtifactRecords(u_in.dir)}
        /\ (\E k \in DOMAIN ArtifactRecords(u_in.dir) :
               ~CaseAccepted(ArtifactRecords(u_in.dir)[k])) => u_out.legal_cases = <<>>
        /\ u_out.legal_cases = <<>> => ~u_out.bundle.written
        /\ u_out.bundle.written =>
              Len(u_out.bundle.case_numbers) = Len(ArtifactRecords(u_in.dir))

\* the loader has returned [] on an artifact of one record it accepts and
\* one it rejects, and no bundle was written though the model would load
C32_Witness ==
    /\ LoaderCalled
    /\ u_in.model_loads
    /\ Len(ArtifactRecords(u_in.dir)) = 2
    /\ \E j, k \in 1..2 :
          /\ CaseAccepted(ArtifactRecords(u_in.dir)[j])
          /\ ~CaseAccepted(ArtifactRecords(u_in.dir)[k])
    /\ u_out.legal_cases = <<>>
    /\ ~u_out.bundle.written

\* the loader has returned both records of an artifact in its order and
\* the bundle was written
BundleWritten ==
    /\ LoaderCalled
    /\ Len(u_out.legal_cases) = 2
    /\ u_out.bundle.written

=========================================================================
